---- MODULE Spec2Model ----
(***************************************************************************)
(* A model of the compression-and-evaluation core of NUERALOGIX-MINI       *)
(* (src/analysis).  Vectors are one-dimensional (an (n, 1) array), so the  *)
(* Euclidean norm is the absolute difference and every distance is exact.  *)
(* Coordinates are integers in a fixed-point unit; embeddings are          *)
(* multiples of Unit, so that the mean of any cluster is an integer.       *)
(* Floating-point rounding error is not modelled: arithmetic is exact.     *)
(***************************************************************************)
EXTENDS Integers, Sequences, FiniteSets, TLC

VARIABLES
    vectors,    \* the loaded embeddings (msmarco_run_compression / run_real_world_evaluation)
    pc,         \* position of the run: "loaded" | "clustered" | "done" (compression),
                \* "compressed" | "returned" (evaluation), "retrieved" | "scored" (ground truth)
    centroids,  \* result of the last standalone run_kmeans call
    calls,      \* standalone classify_boundary_vectors calls made on (vectors, centroids)
    ret,        \* what the last compression call returned (or raised)
    ev,         \* what the last self-referential metric call returned (real_world_validation)
    retrieved,  \* the ranking retrieved for a query (msmarco_eval_retrieval)
    relevant,   \* the relevant passage ids of the query
    score,      \* what the last ground-truth metric call returned
    run,        \* evaluate_retrieval: the accumulated scores and the reported metrics
    stats,      \* aggregate_by_method: method -> metric -> mean (analyze_validation_results)
    comparison, \* what compare_methods returned
    verdict,    \* what determine_verdict returned
    rows,       \* the comparison table of compare_boundary_aware
    count_verdict, \* what compute_verdict returned
    results,    \* the runs handed to compute_stability_metrics (run_boundary_eval)
    stability,  \* what compute_stability_metrics returned
    args,       \* the arguments of the call of a function taken on its own
    result,     \* what that call returned
    pipeline    \* msmarco_run_pipeline: the stages run and the report written

vars == <<vectors, pc, centroids, calls, ret, ev, retrieved, relevant, score, run,
          stats, comparison, verdict, rows, count_verdict, results, stability,
          args, result, pipeline>>
cvars == <<vectors, centroids, calls, ret, ev>>
gtvars == <<retrieved, relevant, score, run>>
anvars == <<stats, comparison, verdict, rows, count_verdict, results, stability>>
fnvars == <<args, result, pipeline>>

\* nothing analysed yet
NoCountVerdict == [exploitable |-> FALSE, confidence |-> "none", improvements |-> <<>>,
                   total_comparisons |-> 0]
NoStability == [grid_values |-> <<>>, mean_delta |-> <<>>, zero_crossings |-> <<>>]
\* no function called on its own, no pipeline started
NoPipeline == [stage |-> "none"]
FnIdle ==
    /\ args = <<>>
    /\ result = <<>>
    /\ pipeline = NoPipeline

AnalysisIdle ==
    /\ stats = <<>>
    /\ comparison = <<>>
    /\ verdict = "none"
    /\ rows = <<>>
    /\ count_verdict = NoCountVerdict
    /\ results = <<>>
    /\ stability = NoStability

----------------------------------------------------------------------------
(* Bounds of the model *)

MaxVectors == 3
MaxCoord == 2
MaxK == 2
MaxRetrieved == 3
MaxQueries == 2

(* Program constants *)

\* extract_unique_vectors' tolerance (1e-9 in the code): the smallest unit of the model
Tolerance == 1
\* the number of Lloyd iterations of simple_kmeans_compression
KMeansIterations == 10
\* the percentile both boundary-aware compressions classify at
BoundaryPercentile == 10

----------------------------------------------------------------------------
(* Arithmetic helpers *)

Abs(x) == IF x < 0 THEN -x ELSE x
Min(a, b) == IF a <= b THEN a ELSE b
Max(a, b) == IF a >= b THEN a ELSE b

RECURSIVE GCD(_, _)
GCD(a, b) == IF b = 0 THEN a ELSE GCD(b, a % b)

RECURSIVE LCMUpTo(_)
LCMUpTo(n) == IF n <= 1 THEN 1 ELSE (LCMUpTo(n - 1) * n) \div GCD(LCMUpTo(n - 1), n)

\* Embeddings are multiples of Unit: every cluster mean is then exact.
Unit == LCMUpTo(MaxVectors)

Coords == {Unit * c : c \in (-1)..(MaxCoord - 1)}

\* lattice steps offered to the compression calls (even, so that step * 0.5 is exact)
Steps == {-4, 0, 4, 10}
Ks == (-1)..MaxK
Percentiles == {0, 10, 50, 100}

\* float NaN (0/0, inf * 0): a value outside every coordinate the model computes
NaN == -999999

RECURSIVE SumSeq(_)
SumSeq(s) == IF s = <<>> THEN 0 ELSE Head(s) + SumSeq(Tail(s))

RECURSIVE SetToSortedSeq(_)
SetToSortedSeq(S) ==
    IF S = {} THEN <<>>
    ELSE LET m == CHOOSE x \in S : \A y \in S : x <= y
         IN <<m>> \o SetToSortedSeq(S \ {m})

RECURSIVE InsertSorted(_, _)
InsertSorted(x, s) ==
    IF s = <<>> THEN <<x>>
    ELSE IF x <= Head(s) THEN <<x>> \o s
    ELSE <<Head(s)>> \o InsertSorted(x, Tail(s))

\* np.sort of a one-dimensional array
RECURSIVE SortAsc(_)
SortAsc(s) == IF s = <<>> THEN <<>> ELSE InsertSorted(Head(s), SortAsc(Tail(s)))

Range(s) == {s[i] : i \in 1..Len(s)}

\* v bound to a name in F: a local variable of the code, computed once
Let(v, F(_)) == CHOOSE r \in {F(x) : x \in {v}} : TRUE

\* an array as an explicit sequence
AsSeq(f) == f \o <<>>

\* np.trunc in place of np.round
RoundTowardZero(num, den) ==
    (IF (num < 0) # (den < 0) THEN -1 ELSE 1) * (Abs(num) \div Abs(den))

\* np.round(num / den): round half to even
RoundHalfEven(num, den) ==
    LET sgn == IF (num < 0) # (den < 0) THEN -1 ELSE 1
        a == Abs(num)
        b == Abs(den)
        q == a \div b
        r == a % b
        m == IF 2 * r < b THEN q
             ELSE IF 2 * r > b THEN q + 1
             ELSE IF q % 2 = 0 THEN q ELSE q + 1
    IN sgn * m

----------------------------------------------------------------------------
(* msmarco_run_compression.py *)

SnapCoord(x, step) ==
    IF x = NaN \/ step = 0 THEN NaN ELSE RoundHalfEven(x, step) * step

snap_to_grid(vs, step) == AsSeq([i \in 1..Len(vs) |-> SnapCoord(vs[i], step)])

\* np.unique(rounded, axis=0): the distinct rows in ascending order; rows that
\* hold NaN never compare equal and are all kept
extract_unique_vectors(vs) ==
    Let(snap_to_grid(vs, Tolerance), LAMBDA rounded :
        IF \E i \in 1..Len(rounded) : rounded[i] = NaN THEN rounded
        ELSE SetToSortedSeq(Range(rounded)))

\* np.linalg.norm of a one-dimensional difference
Dist(x, c) == Abs(x - c)

\* np.argmin(distances to cs): the first index of the minimum; a NaN distance
\* is the minimum for argmin, the first one wins.  cs is not empty.
ArgMinDist(x, cs) ==
    IF \E j \in 1..Len(cs) : cs[j] = NaN
    THEN CHOOSE j \in 1..Len(cs) : cs[j] = NaN /\ \A h \in 1..(j - 1) : cs[h] # NaN
    ELSE CHOOSE j \in 1..Len(cs) :
            /\ \A h \in 1..Len(cs) : Dist(x, cs[j]) <= Dist(x, cs[h])
            /\ \A h \in 1..(j - 1) : Dist(x, cs[h]) > Dist(x, cs[j])

\* the labelings KMeans may end with: every one of the k clusters is used
Labelings(n, k) == {f \in [1..n -> 1..k] : \A j \in 1..k : \E i \in 1..n : f[i] = j}

ClusterMean(vs, f, j) ==
    LET members == {i \in 1..Len(vs) : f[i] = j}
        total == SumSeq([h \in 1..Len(vs) |-> IF f[h] = j THEN vs[h] ELSE 0])
    IN total \div Cardinality(members)

\* a plausible slip: the fallback taken only for fewer than k vectors
run_kmeans_strict(vs, k) ==
    LET kk == IF k <= 0 THEN 1 ELSE k
    IN IF Len(vs) < kk
       THEN {[compressed |-> vs, centroids |-> vs]}
       ELSE {[compressed |-> AsSeq([i \in 1..Len(vs) |-> ClusterMean(vs, f, f[i])]),
              centroids  |-> AsSeq([j \in 1..kk |-> ClusterMean(vs, f, j)])]
             : f \in Labelings(Len(vs), kk)}

\* run_kmeans: every (compressed, centroids) pair the call may return.  sklearn's
\* KMeans is a library: its result is some partition of the vectors into k
\* non-empty clusters, each centroid the mean of its cluster.
run_kmeans(vs, k) ==
    LET kk == IF k <= 0 THEN 1 ELSE k
    IN IF Len(vs) <= kk
       THEN {[compressed |-> vs, centroids |-> vs]}
       ELSE {[compressed |-> AsSeq([i \in 1..Len(vs) |-> ClusterMean(vs, f, f[i])]),
              centroids  |-> AsSeq([j \in 1..kk |-> ClusterMean(vs, f, j)])]
             : f \in Labelings(Len(vs), kk)}

\* ambiguity d2 - d1 of one vector over at least two centroids
Ambiguity(x, cs) ==
    Let(SortAsc([j \in 1..Len(cs) |-> Dist(x, cs[j])]), LAMBDA sorted : sorted[2] - sorted[1])

\* 100 * np.percentile(a, p) for a non-empty array (linear interpolation between
\* the two neighbouring order statistics)
Percentile100(a, p) ==
    Let(SortAsc(a), LAMBDA s :
        LET n == Len(a)
            pos == p * (n - 1)
            lo == pos \div 100
            hi == Min(lo + 1, n - 1)
            frac == pos % 100
        IN 100 * s[lo + 1] + frac * (s[hi + 1] - s[lo + 1]))

\* a plausible slip: a strict comparison against the threshold
ClassifyStrict(vs, cs, percentile) ==
    IF Len(cs) < 2 THEN [i \in 1..Len(vs) |-> FALSE]
    ELSE Let(AsSeq([i \in 1..Len(vs) |-> Ambiguity(vs[i], cs)]), LAMBDA ambiguity_scores :
         Let(Percentile100(ambiguity_scores, percentile), LAMBDA threshold100 :
             AsSeq([i \in 1..Len(vs) |-> 100 * ambiguity_scores[i] < threshold100])))

\* classify_boundary_vectors: the boolean mask (vs is not empty when there are
\* two or more centroids)
classify_boundary_vectors(vs, cs, percentile) ==
    IF Len(cs) < 2 THEN [i \in 1..Len(vs) |-> FALSE]
    ELSE Let(AsSeq([i \in 1..Len(vs) |-> Ambiguity(vs[i], cs)]), LAMBDA ambiguity_scores :
         Let(Percentile100(ambiguity_scores, percentile), LAMBDA threshold100 :
             AsSeq([i \in 1..Len(vs) |-> 100 * ambiguity_scores[i] <= threshold100])))

CountTrue(mask) == Cardinality({i \in 1..Len(mask) : mask[i]})

NoInfo == [mode |-> "none", grid |-> 0, k |-> 0, boundary_step |-> 0,
           num_boundary_vectors |-> 0, num_bulk_vectors |-> 0, num_unique_centroids |-> 0]

Raised(op, grid, k, error) ==
    [op |-> op, grid |-> grid, k |-> k, status |-> error, compressed |-> <<>>,
     ideal |-> <<>>, bulk |-> <<>>, fine |-> <<>>, mask |-> <<>>, info |-> NoInfo]

\* compress_baseline given the centroids run_kmeans returned
compress_baseline(vs, grid, k, ideal) ==
    Let(extract_unique_vectors(snap_to_grid(ideal, grid)), LAMBDA unique :
        IF Len(unique) = 0
        THEN \* np.argmin over an empty axis
             Raised("baseline", grid, k, "ValueError")
        ELSE [op |-> "baseline", grid |-> grid, k |-> k, status |-> "ok",
              compressed |-> [i \in 1..Len(vs) |-> unique[ArgMinDist(vs[i], unique)]],
              ideal |-> ideal, bulk |-> unique, fine |-> <<>>,
              mask |-> [i \in 1..Len(vs) |-> FALSE],
              info |-> [mode |-> "baseline", grid |-> grid, k |-> k, boundary_step |-> 0,
                        num_boundary_vectors |-> 0, num_bulk_vectors |-> 0,
                        num_unique_centroids |-> Len(unique)]])

\* compress_boundary_aware given the centroids run_kmeans returned
compress_boundary_aware(vs, grid, k, ideal) ==
    Let(classify_boundary_vectors(vs, ideal, BoundaryPercentile), LAMBDA mask :
    Let(extract_unique_vectors(snap_to_grid(ideal, grid)), LAMBDA bulk :
    Let(extract_unique_vectors(snap_to_grid(ideal, grid \div 2)), LAMBDA fine :
        [op |-> "boundary-aware", grid |-> grid, k |-> k, status |-> "ok",
         compressed |-> [i \in 1..Len(vs) |->
                           IF mask[i] THEN fine[ArgMinDist(vs[i], fine)]
                           ELSE bulk[ArgMinDist(vs[i], bulk)]],
         ideal |-> ideal, bulk |-> bulk, fine |-> fine, mask |-> mask,
         info |-> [mode |-> "boundary-aware", grid |-> grid, k |-> k,
                   boundary_step |-> grid \div 2,
                   num_boundary_vectors |-> CountTrue(mask),
                   num_bulk_vectors |-> Len(vs) - CountTrue(mask),
                   num_unique_centroids |-> Len(extract_unique_vectors(bulk \o fine))]])))

----------------------------------------------------------------------------
(* run_real_world_evaluation.py *)

\* embeddings[:k] (a negative k drops the last -k rows)
FirstRows(vs, k) ==
    LET m == IF k >= 0 THEN Min(k, Len(vs)) ELSE Max(Len(vs) + k, 0)
    IN SubSeq(vs, 1, m)

\* one Lloyd iteration: assign to the nearest centroid, then move each of the
\* first k centroids to the mean of its points (a centroid without points stays)
LloydStep(vs, cs, k) ==
    Let(AsSeq([i \in 1..Len(vs) |-> ArgMinDist(vs[i], cs)]), LAMBDA assignments :
        AsSeq([j \in 1..Len(cs) |->
                 IF j <= k /\ (\E i \in 1..Len(vs) : assignments[i] = j)
                 THEN ClusterMean(vs, assignments, j)
                 ELSE cs[j]]))

\* range(iterations) Lloyd iterations from the centroids cs
RECURSIVE Lloyd(_, _, _, _)
Lloyd(vs, cs, k, iterations) ==
    IF iterations = 0 THEN cs
    ELSE Let(LloydStep(vs, cs, k), LAMBDA next : Lloyd(vs, next, k, iterations - 1))

\* line 156: d2 - d1 when k > 1, else the distance to the nearest centroid
SimpleAmbiguity(x, cs, k) ==
    Let(SortAsc([j \in 1..Len(cs) |-> Dist(x, cs[j])]), LAMBDA sorted_dists :
        IF k > 1 THEN sorted_dists[2] - sorted_dists[1] ELSE sorted_dists[1])

\* lines 146-183 of simple_kmeans_compression, given the centroids cs of the
\* Lloyd iterations
SimpleCompressWith(vs, k, grid_step, boundary_aware, cs) ==
    Let(snap_to_grid(cs, grid_step), LAMBDA snapped_centroids :
    Let(AsSeq([i \in 1..Len(vs) |-> SimpleAmbiguity(vs[i], cs, k)]), LAMBDA ambiguity :
    Let(Percentile100(ambiguity, BoundaryPercentile), LAMBDA threshold100 :
    Let(AsSeq([i \in 1..Len(vs) |-> boundary_aware /\ 100 * ambiguity[i] <= threshold100]),
        LAMBDA is_boundary :
    Let(snap_to_grid(cs, grid_step \div 2), LAMBDA boundary_centroids :
        [op |-> IF boundary_aware THEN "simple-boundary" ELSE "simple",
         grid |-> grid_step, k |-> k, status |-> "ok",
         compressed |-> [i \in 1..Len(vs) |->
                           IF is_boundary[i]
                           THEN boundary_centroids[ArgMinDist(vs[i], boundary_centroids)]
                           ELSE snapped_centroids[ArgMinDist(vs[i], snapped_centroids)]],
         ideal |-> cs, bulk |-> snapped_centroids,
         fine |-> IF boundary_aware THEN boundary_centroids ELSE <<>>,
         mask |-> is_boundary, info |-> NoInfo])))))

\* simple_kmeans_compression: (compressed, centroids) and the locals it computed
simple_kmeans_compression(vs, k, grid_step, boundary_aware) ==
    LET op == IF boundary_aware THEN "simple-boundary" ELSE "simple"
        n == Len(vs)
    IN IF n <= k
       THEN [op |-> op, grid |-> grid_step, k |-> k, status |-> "ok",
             compressed |-> vs, ideal |-> vs, bulk |-> vs, fine |-> <<>>,
             mask |-> [i \in 1..n |-> FALSE], info |-> NoInfo]
       ELSE IF Len(FirstRows(vs, k)) = 0
       THEN \* np.argmin over an empty axis, in the first iteration
            Raised(op, grid_step, k, "ValueError")
       ELSE Let(Lloyd(vs, FirstRows(vs, k), k, KMeansIterations), LAMBDA cs :
                SimpleCompressWith(vs, k, grid_step, boundary_aware, cs))

----------------------------------------------------------------------------
(* The compression run: the embeddings are loaded, then one call is made *)

NoRet == Raised("none", 0, 0, "none")

\* a float as a fraction; NaN is 0/0
Rat(n, d) == [num |-> n, den |-> d]
RatNaN == Rat(0, 0)

NoEval == [metric |-> "none", k |-> 0, result |-> RatNaN, orig_self |-> FALSE, comp_self |-> FALSE]

NoScore == [metric |-> "none", k |-> 0, value |-> RatNaN]

NoMetrics == [recall_10 |-> RatNaN, recall_100 |-> RatNaN, mrr |-> RatNaN, ndcg_10 |-> RatNaN]
NoRun == [num_queries |-> 0, queries_with_qrels |-> 0,
          recall_10 |-> Rat(0, 1), recall_100 |-> Rat(0, 1), mrr |-> Rat(0, 1),
          ndcg_10 |-> Rat(0, 1), metrics |-> NoMetrics]

InitCompress ==
    /\ vectors \in UNION {[1..n -> Coords] : n \in 0..MaxVectors}
    /\ pc = "loaded"
    /\ centroids = <<>>
    /\ calls = <<>>
    /\ ret = NoRet
    /\ ev = NoEval
    /\ retrieved = <<>>
    /\ relevant = {}
    /\ score = NoScore
    /\ run = NoRun
    /\ FnIdle
    /\ AnalysisIdle

CompressBaseline ==
    /\ pc = "loaded"
    /\ \E grid \in Steps, k \in Ks :
         \E km \in run_kmeans(vectors, k) :
            ret' = compress_baseline(vectors, grid, k, km.centroids)
    /\ pc' = "done"
    /\ UNCHANGED <<vectors, centroids, calls, ev>>
    /\ UNCHANGED <<gtvars, anvars, fnvars>>

CompressBoundaryAware ==
    /\ pc = "loaded"
    /\ \E grid \in Steps, k \in Ks :
         \E km \in run_kmeans(vectors, k) :
            ret' = compress_boundary_aware(vectors, grid, k, km.centroids)
    /\ pc' = "done"
    /\ UNCHANGED <<vectors, centroids, calls, ev>>
    /\ UNCHANGED <<gtvars, anvars, fnvars>>

SimpleKMeansCompression ==
    /\ pc = "loaded"
    /\ \E grid \in Steps, k \in Ks, boundary_aware \in BOOLEAN :
         ret' = simple_kmeans_compression(vectors, k, grid, boundary_aware)
    /\ pc' = "done"
    /\ UNCHANGED <<vectors, centroids, calls, ev>>
    /\ UNCHANGED <<gtvars, anvars, fnvars>>

\* a standalone run_kmeans call: the centroids are kept for the classifier
RunKMeans ==
    /\ pc = "loaded"
    /\ \E k \in Ks :
         \E km \in run_kmeans(vectors, k) :
            /\ centroids' = km.centroids
            /\ ret' = [NoRet EXCEPT !.op = "run_kmeans", !.k = k, !.status = "ok",
                                   !.compressed = km.compressed, !.ideal = km.centroids]
    /\ pc' = "clustered"
    /\ UNCHANGED <<vectors, calls, ev>>
    /\ UNCHANGED <<gtvars, anvars, fnvars>>

\* classify_boundary_vectors on the loaded vectors and the centroids, at most
\* twice on the same input (np.percentile needs a non-empty score array)
ClassifyBoundaryVectors ==
    /\ pc = "clustered"
    /\ Len(calls) < 2
    /\ Len(centroids) < 2 \/ Len(vectors) > 0
    /\ \E p \in Percentiles :
         calls' = Append(calls, [percentile |-> p,
                                 mask |-> classify_boundary_vectors(vectors, centroids, p)])
    /\ UNCHANGED <<vectors, pc, centroids, ret, ev>>
    /\ UNCHANGED <<gtvars, anvars, fnvars>>

NextCompress ==
    \/ CompressBaseline
    \/ CompressBoundaryAware
    \/ SimpleKMeansCompression
    \/ RunKMeans
    \/ ClassifyBoundaryVectors

SpecCompress == InitCompress /\ [][NextCompress]_vars

----------------------------------------------------------------------------
(* real_world_validation.py: the self-referential metrics, as              *)
(* run_evaluation_experiment calls them on (embeddings, compressed)        *)

RatNorm(n, d) ==
    IF d = 0 THEN RatNaN
    ELSE LET g == GCD(Abs(n), d) IN Rat(n \div g, d \div g)

RatAdd(a, b) == RatNorm(a.num * b.den + b.num * a.den, a.den * b.den)

\* np.mean of count values whose sum is total (the mean of no value is NaN)
RatMean(total, count) == RatNorm(total.num, total.den * count)

\* the metric cutoffs: the small ones make the loops run, 10 is the one
\* run_evaluation_experiment passes
EvalK == 10
EvalKs == (1..MaxK) \cup {EvalK}

\* np.linalg.norm(vs - vs[i], axis=1)
DistsFrom(vs, i) == AsSeq([j \in 1..Len(vs) |-> Dist(vs[j], vs[i])])

\* np.argsort(d): an ascending order of the indices.  The default sort is not
\* stable, so equal values come in any order.
ArgSorts(d) ==
    {AsSeq(p) : p \in {q \in Permutations(1..Len(d)) :
                          \A a, b \in 1..Len(d) : a < b => d[q[a]] <= d[q[b]]}}

\* order[1:k+1]
Slice1(order, k) == SubSeq(order, 2, Min(k + 1, Len(order)))

\* np.argsort(d)[1:k+1]
Nearest(d, k) == {Slice1(order, k) : order \in ArgSorts(d)}

\* np.argmin(d) after d[i] = np.inf: the first nearest index other than i (i
\* itself when there is no other)
ArgMinExcluding(d, i) ==
    IF Len(d) = 1 THEN i
    ELSE CHOOSE j \in 1..Len(d) :
            /\ j # i
            /\ \A h \in 1..Len(d) : h # i => d[j] <= d[h]
            /\ \A h \in 1..(j - 1) : h # i => d[h] > d[j]

\* 1-indexed position of x in order
IndexOf(order, x) == CHOOSE a \in 1..Len(order) : order[a] = x

\* 100 / log2(j + 1) for the 1-indexed rank j, rounded (np.log2(np.arange(2, k + 2)))
DiscountPct == <<100, 63, 50, 43, 39, 36, 33, 32, 30, 29>>

\* relevance 1 / (d + 1e-10) of a vector at distance d, scaled; the vector
\* itself (distance inf) has relevance 0; at distance 0 the relevance is
\* 1 / 1e-10, modelled as a value far above every other
RelevanceScale == 360
ZeroDistanceRelevance == 36000
Relevance(d, j, i) ==
    IF j = i THEN 0
    ELSE IF d[j] = 0 THEN ZeroDistanceRelevance
    ELSE RelevanceScale \div d[j]

\* sum(relevance[order] / log2(arange(2, k + 2))), scaled by 100
DCG(d, order, i) ==
    SumSeq([a \in 1..Len(order) |-> Relevance(d, order[a], i) * DiscountPct[a]])

\* np.argsort(relevance)[::-1][:k]
IdealOrders(d, i, k) ==
    LET rel == [j \in 1..Len(d) |-> Relevance(d, j, i)]
    IN {SubSeq([a \in 1..Len(d) |-> p[Len(d) + 1 - a]], 1, Min(k, Len(d))) : p \in ArgSorts(rel)}

\* the guard of compute_recall_at_k and compute_ndcg
Degenerate(n, k) == n < k + 1

InitEval ==
    /\ vectors \in UNION {[1..n -> Coords] : n \in 0..MaxVectors}
    /\ pc = "loaded"
    /\ centroids = <<>>
    /\ calls = <<>>
    /\ ret = NoRet
    /\ ev = NoEval
    /\ retrieved = <<>>
    /\ relevant = {}
    /\ score = NoScore
    /\ run = NoRun
    /\ FnIdle
    /\ AnalysisIdle

\* run_evaluation_experiment, lines 226-228: the sweep compresses the embeddings;
\* of what simple_kmeans_compression returns only the compressed vectors are used
EvalCompress ==
    /\ pc = "loaded"
    /\ \E grid \in {g \in Steps : g > 0}, k \in 1..MaxK, boundary_aware \in BOOLEAN :
         ret' = [NoRet EXCEPT !.op = "sweep", !.status = "ok",
                   !.compressed = simple_kmeans_compression(vectors, k, grid, boundary_aware).compressed]
    /\ pc' = "compressed"
    /\ UNCHANGED <<vectors, centroids, calls, ev>>
    /\ UNCHANGED <<gtvars, anvars, fnvars>>

\* what one pass of a metric's loop yields: the value appended to the list of
\* values, and whether the query itself is in the neighbour list taken in
\* original space and in the one taken in compressed space
Outcome(value, orig_list, comp_list, i) ==
    [value |-> value, orig_self |-> i \in Range(orig_list), comp_self |-> i \in Range(comp_list)]

\* the loop over the queries 1..i, outs[j] being what the pass for query j can
\* yield: the sum of the values, and whether some query was in a neighbour
\* list of its own
RECURSIVE Loop(_, _)
Loop(outs, i) ==
    IF i = 0 THEN {[value |-> Rat(0, 1), orig_self |-> FALSE, comp_self |-> FALSE]}
    ELSE Let(Loop(outs, i - 1), LAMBDA before :
            {[value |-> RatAdd(b.value, o.value),
              orig_self |-> b.orig_self \/ o.orig_self,
              comp_self |-> b.comp_self \/ o.comp_self] : b \in before, o \in outs[i]})

\* float(np.mean(values)) of a finished loop over n queries
Returned(metric, k, n, loop) ==
    [metric |-> metric, k |-> k, result |-> RatMean(loop.value, n),
     orig_self |-> loop.orig_self, comp_self |-> loop.comp_self]

\* the early return of the degenerate case
Perfect(metric, k) ==
    [metric |-> metric, k |-> k, result |-> Rat(1, 1), orig_self |-> FALSE, comp_self |-> FALSE]

\* compute_recall_at_k, lines 76-87: what the pass for query i can yield
RecallOutcomes(vs, comp, i, k) ==
    {Outcome(Rat(Cardinality(Range(orig_nearest) \cap Range(comp_nearest)), k),
             orig_nearest, comp_nearest, i) :
        orig_nearest \in Nearest(DistsFrom(vs, i), k),
        comp_nearest \in Nearest(DistsFrom(comp, i), k)}

\* compute_recall_at_k(original_embeddings, compressed_embeddings, k)
compute_recall_at_k(vs, comp, k) ==
    IF Degenerate(Len(vs), k) THEN {Perfect("recall", k)}
    ELSE {Returned("recall", k, Len(vs), l) :
             l \in Loop(AsSeq([i \in 1..Len(vs) |-> RecallOutcomes(vs, comp, i, k)]), Len(vs))}

\* compute_mrr, lines 106-118: what the pass for query i can yield
MRROutcomes(vs, comp, i, k) ==
    LET true_nearest == ArgMinExcluding(DistsFrom(vs, i), i)
    IN {Outcome(IF IndexOf(comp_ranks, true_nearest) <= k
                THEN Rat(1, IndexOf(comp_ranks, true_nearest)) ELSE Rat(0, 1),
                <<true_nearest>>, comp_ranks, i) :
           comp_ranks \in ArgSorts(DistsFrom(comp, i))}

\* compute_mrr(original_embeddings, compressed_embeddings, k): no guard; the
\* mean of no value is NaN
compute_mrr(vs, comp, k) ==
    {Returned("mrr", k, Len(vs), l) :
        l \in Loop(AsSeq([i \in 1..Len(vs) |-> MRROutcomes(vs, comp, i, k)]), Len(vs))}

\* actual_dcg / (ideal_dcg + 1e-10), to 1/100
DCGQuotient(actual_dcg, ideal_dcg) ==
    IF ideal_dcg = 0 THEN Rat(0, 1) ELSE RatNorm((100 * actual_dcg) \div ideal_dcg, 100)

\* compute_ndcg, lines 139-154: what the pass for query i can yield
NDCGOutcomes(vs, comp, i, k) ==
    LET orig_dists == DistsFrom(vs, i)
    IN {Outcome(DCGQuotient(DCG(orig_dists, actual_order, i), DCG(orig_dists, ideal_order, i)),
                ideal_order, actual_order, i) :
           ideal_order \in IdealOrders(orig_dists, i, k),
           actual_order \in Nearest(DistsFrom(comp, i), k)}

\* compute_ndcg(original_embeddings, compressed_embeddings, k)
compute_ndcg(vs, comp, k) ==
    IF Degenerate(Len(vs), k) THEN {Perfect("ndcg", k)}
    ELSE {Returned("ndcg", k, Len(vs), l) :
             l \in Loop(AsSeq([i \in 1..Len(vs) |-> NDCGOutcomes(vs, comp, i, k)]), Len(vs))}

\* run_evaluation_experiment, lines 236-237
ComputeRecallAtK ==
    /\ pc = "compressed"
    /\ \E k \in EvalKs : ev' \in compute_recall_at_k(vectors, ret.compressed, k)
    /\ pc' = "returned"
    /\ UNCHANGED <<vectors, centroids, calls, ret>>
    /\ UNCHANGED <<gtvars, anvars, fnvars>>

\* run_evaluation_experiment, line 238
ComputeMRR ==
    /\ pc = "compressed"
    /\ \E k \in EvalKs : ev' \in compute_mrr(vectors, ret.compressed, k)
    /\ pc' = "returned"
    /\ UNCHANGED <<vectors, centroids, calls, ret>>
    /\ UNCHANGED <<gtvars, anvars, fnvars>>

\* run_evaluation_experiment, line 239
ComputeNDCG ==
    /\ pc = "compressed"
    /\ \E k \in EvalKs : ev' \in compute_ndcg(vectors, ret.compressed, k)
    /\ pc' = "returned"
    /\ UNCHANGED <<vectors, centroids, calls, ret>>
    /\ UNCHANGED <<gtvars, anvars, fnvars>>

NextEval ==
    \/ EvalCompress
    \/ ComputeRecallAtK
    \/ ComputeMRR
    \/ ComputeNDCG

SpecEval == InitEval /\ [][NextEval]_vars

----------------------------------------------------------------------------
(* msmarco_eval_retrieval.py: the ground-truth metrics of one query, on    *)
(* the ranking retrieved for it and the set of its relevant passage ids    *)

PassageIds == {"p1", "p2", "p3"}
Cutoffs == {1, 2, 10, 100}

\* retrieved[:k]
Prefix(seq, k) == SubSeq(seq, 1, Min(k, Len(seq)))

\* a plausible slip: the hits divided by the cutoff (precision at k)
compute_recall_at_k_over_k(retr, rel, k) ==
    IF rel = {} THEN Rat(0, 1)
    ELSE RatNorm(Cardinality(Range(Prefix(retr, k)) \cap rel), k)

\* a plausible slip: the slice retrieved[k:] for retrieved[:k]
compute_recall_at_k_from_k(retr, rel, k) ==
    IF rel = {} THEN Rat(0, 1)
    ELSE RatNorm(Cardinality(Range(SubSeq(retr, Min(k, Len(retr)) + 1, Len(retr))) \cap rel),
                 Cardinality(rel))

\* compute_recall_at_k(retrieved, relevant, k)
msmarco_compute_recall_at_k(retr, rel, k) ==
    IF rel = {} THEN Rat(0, 1)
    ELSE LET retrieved_at_k == Range(Prefix(retr, k))
             relevant_retrieved == retrieved_at_k \cap rel
         IN RatNorm(Cardinality(relevant_retrieved), Cardinality(rel))

\* compute_mrr(retrieved, relevant): the loop from position i (1-indexed here,
\* so the value is 1 / i where the code's enumerate gives 1.0 / (i + 1))
RECURSIVE ReciprocalRankFrom(_, _, _)
ReciprocalRankFrom(retr, rel, i) ==
    IF i > Len(retr) THEN Rat(0, 1)
    ELSE IF retr[i] \in rel THEN Rat(1, i)
    ELSE ReciprocalRankFrom(retr, rel, i + 1)

msmarco_compute_mrr(retr, rel) == ReciprocalRankFrom(retr, rel, 1)

\* 10000 / np.log2(i + 2) for the zero-indexed rank i, rounded; the rankings of
\* the model are shorter than the table
Log2Discount == <<10000, 6309, 5000, 4307, 3869, 3562, 3333, 3155, 3010, 2891>>

\* a plausible slip: the rank counted from 1 under the same formula
compute_dcg_at_k_one_indexed(retr, rel, k) ==
    SumSeq([i \in 1..Len(Prefix(retr, k)) |->
               IF retr[i] \in rel THEN Log2Discount[i + 1] ELSE 0])

\* compute_dcg_at_k(retrieved, relevant, k), in 1/10000
compute_dcg_at_k(retr, rel, k) ==
    SumSeq([i \in 1..Len(Prefix(retr, k)) |->
               IF retr[i] \in rel THEN Log2Discount[i] ELSE 0])

\* a plausible slip: the ideal ranking holds one relevant id, whatever the
\* number of relevant ids
compute_ndcg_at_k_single_ideal(retr, rel, k) ==
    LET dcg == compute_dcg_at_k(retr, rel, k)
        idcg == compute_dcg_at_k(<<"relevant">>, {"relevant"}, k)
    IN IF rel = {} THEN Rat(0, 1) ELSE Rat(dcg, idcg)

\* compute_ndcg_at_k(retrieved, relevant, k): the quotient dcg / idcg, kept as
\* the pair of the two sums
compute_ndcg_at_k(retr, rel, k) ==
    LET dcg == compute_dcg_at_k(retr, rel, k)
        num_relevant == Cardinality(rel)
        ideal_retrieved == [i \in 1..Min(num_relevant, k) |-> "relevant"]
        ideal_relevant == Range(ideal_retrieved)
        idcg == compute_dcg_at_k(ideal_retrieved, ideal_relevant, k)
    IN IF idcg = 0 THEN Rat(0, 1) ELSE Rat(dcg, idcg)

InitGT ==
    /\ retrieved \in UNION {[1..n -> PassageIds] : n \in 0..MaxRetrieved}
    /\ relevant \in SUBSET PassageIds
    /\ score = NoScore
    /\ run = NoRun
    /\ FnIdle
    /\ AnalysisIdle
    /\ pc = "retrieved"
    /\ vectors = <<>>
    /\ centroids = <<>>
    /\ calls = <<>>
    /\ ret = NoRet
    /\ ev = NoEval

\* evaluate_retrieval, lines 249-250
GTRecallAtK ==
    /\ pc = "retrieved"
    /\ \E k \in Cutoffs :
         score' = [metric |-> "recall", k |-> k,
                   value |-> msmarco_compute_recall_at_k(retrieved, relevant, k)]
    /\ pc' = "scored"
    /\ UNCHANGED <<retrieved, relevant, run, cvars, anvars, fnvars>>

\* evaluate_retrieval, line 251
GTMRR ==
    /\ pc = "retrieved"
    /\ score' = [metric |-> "mrr", k |-> 0, value |-> msmarco_compute_mrr(retrieved, relevant)]
    /\ pc' = "scored"
    /\ UNCHANGED <<retrieved, relevant, run, cvars, anvars, fnvars>>

\* evaluate_retrieval, line 252
GTNDCGAtK ==
    /\ pc = "retrieved"
    /\ \E k \in Cutoffs :
         score' = [metric |-> "ndcg", k |-> k,
                   value |-> compute_ndcg_at_k(retrieved, relevant, k)]
    /\ pc' = "scored"
    /\ UNCHANGED <<retrieved, relevant, run, cvars, anvars, fnvars>>

\* no two positions of the ranking hold the same id
Distinct(seq) == \A i, j \in 1..Len(seq) : i < j => seq[i] # seq[j]

\* the rankings search_top_k yields over passages of pairwise-distinct ids
\* (np.argsort gives every index once)
Rankings == {r \in UNION {[1..n -> PassageIds] : n \in 0..MaxRetrieved} : Distinct(r)}

\* a score in 1/10000, the precision at which the run adds the NDCG values up
Fixed(r) == IF r.den = 0 THEN r ELSE RatNorm((r.num * 10000) \div r.den, 10000)

\* evaluate_retrieval, lines 229-257: one pass of the loop, for a query that
\* has qrels; the ranking and the relevant ids of the next query follow
EvaluateQuery ==
    /\ pc \in {"retrieved", "evaluating"}
    /\ Distinct(retrieved)
    /\ run.num_queries < MaxQueries
    /\ run' = [run EXCEPT
                 !.num_queries = @ + 1,
                 !.queries_with_qrels = @ + 1,
                 !.recall_10 = RatAdd(@, msmarco_compute_recall_at_k(retrieved, relevant, 10)),
                 !.recall_100 = RatAdd(@, msmarco_compute_recall_at_k(retrieved, relevant, 100)),
                 !.mrr = RatAdd(@, msmarco_compute_mrr(retrieved, relevant)),
                 !.ndcg_10 = RatAdd(@, Fixed(compute_ndcg_at_k(retrieved, relevant, 10)))]
    /\ retrieved' \in Rankings
    /\ relevant' \in SUBSET PassageIds
    /\ pc' = "evaluating"
    /\ UNCHANGED <<score, cvars, anvars, fnvars>>

\* evaluate_retrieval, lines 232-234: a query without qrels is skipped
SkipQuery ==
    /\ pc \in {"retrieved", "evaluating"}
    /\ run.num_queries < MaxQueries
    /\ run' = [run EXCEPT !.num_queries = @ + 1]
    /\ retrieved' \in Rankings
    /\ relevant' \in SUBSET PassageIds
    /\ pc' = "evaluating"
    /\ UNCHANGED <<score, cvars, anvars, fnvars>>

\* float(np.mean(scores)) if scores else 0.0
MeanOrZero(total, count) == IF count = 0 THEN Rat(0, 1) ELSE RatMean(total, count)

\* evaluate_retrieval, lines 262-266: the averages over the evaluated queries
ReportMetrics ==
    /\ pc \in {"retrieved", "evaluating"}
    /\ run' = [run EXCEPT !.metrics =
                 [recall_10 |-> MeanOrZero(run.recall_10, run.queries_with_qrels),
                  recall_100 |-> MeanOrZero(run.recall_100, run.queries_with_qrels),
                  mrr |-> MeanOrZero(run.mrr, run.queries_with_qrels),
                  ndcg_10 |-> MeanOrZero(run.ndcg_10, run.queries_with_qrels)]]
    /\ pc' = "reported"
    /\ UNCHANGED <<retrieved, relevant, score, cvars, anvars, fnvars>>

NextGT ==
    \/ GTRecallAtK
    \/ GTMRR
    \/ GTNDCGAtK
    \/ EvaluateQuery
    \/ SkipQuery
    \/ ReportMetrics

SpecGT == InitGT /\ [][NextGT]_vars

----------------------------------------------------------------------------
(* The verdict engine of analyze_validation_results: compare_methods and   *)
(* determine_verdict on the aggregated stats.  A mean is an integer in a   *)
(* fixed-point unit (recall in 1/100, time in milliseconds); an            *)
(* improvement percentage is an exact fraction.                            *)

\* a metric a method has no value for (line 72: metric not in the stats)
Absent == -1

Methods == {"lattice-hybrid", "boundary-aware"}

\* line 68: the metrics compare_methods compares, in order
ComparedMetrics ==
    <<"recall_at_10", "recall_at_100", "mrr", "ndcg_at_10", "mse_global",
      "compression_time_seconds">>

\* line 78: the metrics for which higher is better
HigherIsBetter == {"recall_at_10", "recall_at_100", "mrr", "ndcg_at_10"}

\* the thresholds, in percent
SignificantPct == 2
OverheadLimitPct == 100

\* the aggregated means the runs can have: Recall@10 in 1/100, compression
\* time in milliseconds, and one further metric of the compared list
RecallMeans == {0, 48, 50, 51, 52}
TimeMeans == {0, 10, 11, 20, 25}
OtherMeans == {40, 50}
OtherMetrics == {"recall_at_100", "mrr", "ndcg_at_10", "mse_global"}

\* aggregate_by_method, lines 43-52: the stats of one method, a metric with
\* no numeric value in any experiment of the method having no entry
MethodStats(r, t, other, o) ==
    LET present == (IF r = Absent THEN {} ELSE {"recall_at_10"})
                   \cup (IF t = Absent THEN {} ELSE {"compression_time_seconds"})
                   \cup (IF o = Absent THEN {} ELSE {other})
    IN [m \in present |->
          [mean |-> IF m = "recall_at_10" THEN r
                    ELSE IF m = "compression_time_seconds" THEN t ELSE o]]

\* lines 78-81 with every metric treated as higher-is-better
improvement_pct_same_sign(metric, baseline_val, ba_val) ==
    IF baseline_val = 0 THEN Rat(0, 1)
    ELSE RatNorm(100 * (ba_val - baseline_val), baseline_val)

\* lines 78-81: the improvement of ba_val over baseline_val, times 100 (line 86)
improvement_pct(metric, baseline_val, ba_val) ==
    IF baseline_val = 0 THEN Rat(0, 1)
    ELSE IF metric \in HigherIsBetter
         THEN RatNorm(100 * (ba_val - baseline_val), baseline_val)
         ELSE RatNorm(100 * (baseline_val - ba_val), baseline_val)

\* line 87: abs(improvement) > 0.02
significant(pct) == Abs(pct.num) > SignificantPct * pct.den

\* compare_methods, lines 57-90
compare_methods(st) ==
    IF "lattice-hybrid" \notin DOMAIN st \/ "boundary-aware" \notin DOMAIN st
    THEN <<>>
    ELSE LET baseline == st["lattice-hybrid"]
             boundary_aware == st["boundary-aware"]
             common == {m \in Range(ComparedMetrics) :
                           m \in DOMAIN baseline /\ m \in DOMAIN boundary_aware}
         IN [m \in common |->
               LET pct == improvement_pct(m, baseline[m].mean, boundary_aware[m].mean)
               IN [baseline |-> baseline[m].mean,
                   boundary_aware |-> boundary_aware[m].mean,
                   improvement_pct |-> pct,
                   significant |-> significant(pct)]]

\* comparison.get(metric, {}).get('improvement_pct', 0), lines 99 and 102
GetImprovementPct(c, metric) ==
    IF metric \in DOMAIN c THEN c[metric].improvement_pct ELSE Rat(0, 1)

\* determine_verdict, lines 98-115: the decision criteria
DecisionCriteria(c) ==
    LET recall_improvement == GetImprovementPct(c, "recall_at_10")
        time_overhead == GetImprovementPct(c, "compression_time_seconds")
        time_overhead_abs == Abs(time_overhead.num)
        significant_recall_improvement ==
            recall_improvement.num > SignificantPct * recall_improvement.den
        acceptable_overhead == time_overhead_abs < OverheadLimitPct * time_overhead.den
    IN IF significant_recall_improvement /\ acceptable_overhead THEN "EXPLOITABLE"
       ELSE IF /\ recall_improvement.num > 0
               /\ recall_improvement.num < SignificantPct * recall_improvement.den
            THEN "OBSERVATIONAL"
            ELSE "REJECTED"

\* determine_verdict without the test of lines 95-96
determine_verdict_unguarded(c) == DecisionCriteria(c)

\* determine_verdict, lines 93-115
determine_verdict(c) ==
    IF DOMAIN c = {} THEN "INSUFFICIENT_DATA" ELSE DecisionCriteria(c)

\* main, line 234: the stats aggregated from the result files
InitVerdict ==
    /\ pc = "aggregated"
    /\ \E methods \in SUBSET Methods, other \in OtherMetrics :
         \E rb \in RecallMeans \cup {Absent}, ra \in RecallMeans \cup {Absent},
            tb \in TimeMeans \cup {Absent}, ta \in TimeMeans \cup {Absent},
            ob \in OtherMeans \cup {Absent}, oa \in OtherMeans \cup {Absent} :
            stats = [m \in methods |->
                       IF m = "lattice-hybrid" THEN MethodStats(rb, tb, other, ob)
                       ELSE MethodStats(ra, ta, other, oa)]
    /\ comparison = <<>>
    /\ verdict = "none"
    /\ rows = <<>>
    /\ count_verdict = NoCountVerdict
    /\ results = <<>>
    /\ stability = NoStability
    /\ vectors = <<>>
    /\ centroids = <<>>
    /\ calls = <<>>
    /\ ret = NoRet
    /\ ev = NoEval
    /\ retrieved = <<>>
    /\ relevant = {}
    /\ score = NoScore
    /\ run = NoRun
    /\ FnIdle

\* main, line 238
CompareMethods ==
    /\ pc = "aggregated"
    /\ comparison' = compare_methods(stats)
    /\ pc' = "compared"
    /\ UNCHANGED <<stats, verdict, rows, count_verdict, results, stability, cvars, gtvars, fnvars>>

\* main, line 242
DetermineVerdict ==
    /\ pc = "compared"
    /\ verdict' = determine_verdict(comparison)
    /\ pc' = "judged"
    /\ UNCHANGED <<stats, comparison, rows, count_verdict, results, stability, cvars, gtvars, fnvars>>

NextVerdict ==
    \/ CompareMethods
    \/ DetermineVerdict

SpecVerdict == InitVerdict /\ [][NextVerdict]_vars

----------------------------------------------------------------------------
(* The count-based verdict of compare_boundary_aware: compute_verdict on   *)
(* the rows of the comparison table, one row per lattice step.  A metric   *)
(* value is an integer or NaN.                                             *)

MaxRows == 3

\* the thresholds of lines 151-152, in percent of the comparisons
ModerateImprovementThreshold == 50
HighImprovementThreshold == 70

\* (baseline, boundary) values of a metric at one step: not comparable,
\* boundary lower, boundary higher
MetricPairs == {<<NaN, 1>>, <<2, 1>>, <<1, 2>>}

\* what boundary-aware does to the three remaining metrics at one step:
\* nothing, lowers the boundary MSE and the delta, raises the k-NN overlap
RestKinds == {"equal", "lower", "higher"}

\* compute_comparison_table, lines 93-105: one row of the table
Row(g, l, o) ==
    [baseline_mse_global |-> g[1], boundary_mse_global |-> g[2],
     baseline_mse_boundary |-> 2, boundary_mse_boundary |-> IF o = "lower" THEN 1 ELSE 2,
     baseline_delta |-> -2, boundary_delta |-> IF o = "lower" THEN 1 ELSE -2,
     baseline_knn |-> 1, boundary_knn |-> IF o = "higher" THEN 2 ELSE 1,
     baseline_lsi |-> l[1], boundary_lsi |-> l[2]]

Rows == {Row(g, l, o) : g \in MetricPairs, l \in MetricPairs, o \in RestKinds}

\* lines 180, 186, 191, 196, 201: neither value is NaN
BothNumbers(a, b) == a # NaN /\ b # NaN

\* lines 178-203: the number of rows at which each metric improves
Improvements(rs) ==
    LET n(Improved(_)) == Cardinality({i \in 1..Len(rs) : Improved(rs[i])})
    IN [mse_global |->
            n(LAMBDA row : /\ BothNumbers(row.baseline_mse_global, row.boundary_mse_global)
                           /\ row.boundary_mse_global < row.baseline_mse_global),
        mse_boundary |->
            n(LAMBDA row : /\ BothNumbers(row.baseline_mse_boundary, row.boundary_mse_boundary)
                           /\ row.boundary_mse_boundary < row.baseline_mse_boundary),
        delta_boundary |->
            n(LAMBDA row : /\ BothNumbers(row.baseline_delta, row.boundary_delta)
                           /\ Abs(row.boundary_delta) < Abs(row.baseline_delta)),
        knn_overlap |->
            n(LAMBDA row : /\ BothNumbers(row.baseline_knn, row.boundary_knn)
                           /\ row.boundary_knn > row.baseline_knn),
        lsi |->
            n(LAMBDA row : /\ BothNumbers(row.baseline_lsi, row.boundary_lsi)
                           /\ row.boundary_lsi > row.baseline_lsi)]

\* lines 180-181: the rows counted as comparisons
TotalComparisons(rs) ==
    Cardinality({i \in 1..Len(rs) :
                    BothNumbers(rs[i].baseline_mse_global, rs[i].boundary_mse_global)})

\* lines 206-230, with the comparisons counted as total
Confidence(improvements, total) ==
    LET counts == {improvements[m] : m \in DOMAIN improvements}
        any_improvement == \E count \in counts : count > 0
        consistent_improvement ==
            \E count \in counts : 100 * count >= total * ModerateImprovementThreshold
        strong_improvement ==
            \E count \in counts : 100 * count >= total * HighImprovementThreshold
    IN IF strong_improvement THEN [exploitable |-> TRUE, confidence |-> "high"]
       ELSE IF consistent_improvement THEN [exploitable |-> TRUE, confidence |-> "moderate"]
       ELSE IF any_improvement THEN [exploitable |-> TRUE, confidence |-> "low"]
       ELSE [exploitable |-> FALSE, confidence |-> "high"]

\* compute_verdict, lines 154-230
compute_verdict(rs) ==
    LET improvements == Improvements(rs)
        total_comparisons == TotalComparisons(rs)
        decided == Confidence(improvements, total_comparisons)
    IN [exploitable |-> decided.exploitable,
        confidence |-> decided.confidence,
        improvements |-> improvements,
        total_comparisons |-> total_comparisons]

\* main: the comparison table of the two experiments
InitCount ==
    /\ pc = "tabled"
    /\ rows \in UNION {[1..n -> Rows] : n \in 0..MaxRows}
    /\ count_verdict = NoCountVerdict
    /\ stats = <<>>
    /\ comparison = <<>>
    /\ verdict = "none"
    /\ results = <<>>
    /\ stability = NoStability
    /\ vectors = <<>>
    /\ centroids = <<>>
    /\ calls = <<>>
    /\ ret = NoRet
    /\ ev = NoEval
    /\ retrieved = <<>>
    /\ relevant = {}
    /\ score = NoScore
    /\ run = NoRun
    /\ FnIdle

\* main, line 435
ComputeVerdict ==
    /\ pc = "tabled"
    /\ count_verdict' = compute_verdict(rows)
    /\ pc' = "counted"
    /\ UNCHANGED <<rows, stats, comparison, verdict, results, stability, cvars, gtvars, fnvars>>

NextCount == ComputeVerdict

SpecCount == InitCount /\ [][NextCount]_vars

----------------------------------------------------------------------------
(* The stability analysis of run_boundary_eval: compute_stability_metrics  *)
(* on the results of the runs of one dataset.  A lattice step i stands for *)
(* the grid value i / 10, a delta is in 1/100, and a mean is an exact      *)
(* fraction.  std_delta and high_variance_regions do not enter the zero    *)
(* crossings and are left out.                                             *)

MaxSteps == 4
MaxRuns == 2
MaxPoints == 5

\* the delta_boundary values a point can carry (NaN: the metric is missing,
\* line 348)
Deltas == {-10, -5, 0, 2, 8, NaN}

\* the numbers of points of at most r runs holding at most budget points in
\* all: a run sweeps between 1 and MaxSteps lattice steps
RECURSIVE Shapes(_, _)
Shapes(r, budget) ==
    {<<>>} \cup
    IF r = 0 THEN {}
    ELSE UNION {{<<n>> \o rest : rest \in Shapes(r - 1, budget - n)} :
                   n \in 1..Min(budget, MaxSteps)}

\* run_boundary_experiment_node, lines 286-305, and main, lines 660-669: the
\* results of the runs, each holding one point per lattice step of its sweep
\* in ascending step order; deltas lists the delta_boundary values of all
\* points, run after run
ResultsOf(shape, deltas) ==
    [j \in 1..Len(shape) |->
        [points |-> [i \in 1..shape[j] |->
                       [grid |-> i,
                        delta |-> deltas[SumSeq(SubSeq(shape, 1, j - 1)) + i]]]]]

\* lines 345-346: the points of every result, in order
RECURSIVE AllPoints(_)
AllPoints(rs) == IF rs = <<>> THEN <<>> ELSE AsSeq(Head(rs).points) \o AllPoints(Tail(rs))

\* lines 347-352: the deltas collected for a grid value
DeltasAt(points, grid) ==
    LET at == SelectSeq(points, LAMBDA p : p.grid = grid)
    IN [i \in 1..Len(at) |-> at[i].delta]

\* line 361: np.mean, which is NaN as soon as one value is NaN
Mean(deltas) ==
    IF \E i \in 1..Len(deltas) : deltas[i] = NaN THEN RatNaN
    ELSE RatNorm(SumSeq(deltas), Len(deltas))

\* lines 367-368: the test of a zero crossing between two adjacent means,
\* every comparison with NaN being false
Crosses(a, b) ==
    /\ a.den # 0
    /\ b.den # 0
    /\ \/ (a.num <= 0 /\ b.num > 0)
       \/ (a.num >= 0 /\ b.num < 0)

\* lines 365-369 with the right end of the pair recorded
ZeroCrossingsAtRightEnd(grid_values, mean_delta) ==
    LET at == SetToSortedSeq({i \in 1..(Len(mean_delta) - 1) :
                                 Crosses(mean_delta[i], mean_delta[i + 1])})
    IN [j \in 1..Len(at) |-> grid_values[at[j] + 1]]

\* lines 365-369: the grid values at which the mean crosses zero
ZeroCrossings(grid_values, mean_delta) ==
    LET at == SetToSortedSeq({i \in 1..(Len(mean_delta) - 1) :
                                 Crosses(mean_delta[i], mean_delta[i + 1])})
    IN [j \in 1..Len(at) |-> grid_values[at[j]]]

\* compute_stability_metrics, lines 336-387
compute_stability_metrics(rs) ==
    LET points == AllPoints(rs)
        grid_values == SetToSortedSeq({points[i].grid : i \in 1..Len(points)})
        mean_delta == [i \in 1..Len(grid_values) |-> Mean(DeltasAt(points, grid_values[i]))]
    IN [grid_values |-> grid_values,
        mean_delta |-> mean_delta,
        zero_crossings |-> ZeroCrossings(grid_values, mean_delta)]

\* main, lines 660-669: the runs of one dataset
InitStability ==
    /\ pc = "ran"
    /\ \E shape \in Shapes(MaxRuns, MaxPoints) :
         \E deltas \in [1..SumSeq(shape) -> Deltas] :
            results = ResultsOf(shape, deltas)
    /\ stability = NoStability
    /\ stats = <<>>
    /\ comparison = <<>>
    /\ verdict = "none"
    /\ rows = <<>>
    /\ count_verdict = NoCountVerdict
    /\ vectors = <<>>
    /\ centroids = <<>>
    /\ calls = <<>>
    /\ ret = NoRet
    /\ ev = NoEval
    /\ retrieved = <<>>
    /\ relevant = {}
    /\ score = NoScore
    /\ run = NoRun
    /\ FnIdle

\* the call of compute_stability_metrics: main, line 677, makes it on the
\* results of two or more runs, a direct caller on any list of results
ComputeStabilityMetrics ==
    /\ pc = "ran"
    /\ stability' = compute_stability_metrics(results)
    /\ pc' = "analysed"
    /\ UNCHANGED <<results, stats, comparison, verdict, rows, count_verdict, cvars, gtvars, fnvars>>

NextStability == ComputeStabilityMetrics

SpecStability == InitStability /\ [][NextStability]_vars

----------------------------------------------------------------------------
(* Functions taken on their own: the arguments of the call are drawn from  *)
(* small sets and the call is one step.                                    *)

\* nothing compressed, evaluated or analysed
CoreIdle ==
    /\ vectors = <<>>
    /\ centroids = <<>>
    /\ calls = <<>>
    /\ ret = NoRet
    /\ ev = NoEval
    /\ retrieved = <<>>
    /\ relevant = {}
    /\ score = NoScore
    /\ run = NoRun
    /\ AnalysisIdle

----------------------------------------------------------------------------
(* detect_stability_regions of real_world_validation.  A grid value i      *)
(* stands for the lattice step i / 10; an MSE is in 1/10 and a delta in    *)
(* 1/10.  The standard deviation of the deltas is left out.                *)

\* the collapse criteria of line 280, in 1/10
CollapseMSE == 5
CollapseDelta == 10

\* the values the three arrays hold: lattice steps 0.1, 0.2, 0.4, and an MSE
\* and a delta at their collapse criterion and just above it
GridValues == {1, 2, 4}
MSEValues == {CollapseMSE, CollapseMSE + 1}
DeltaValues == {CollapseDelta, CollapseDelta + 1}

\* line 280
Collapsed(delta, mse) == mse > CollapseMSE \/ delta > CollapseDelta

\* lines 278-282: the grid value of the first index that meets the
\* criterion, <<>> for None
CollapseThreshold(grid_values, delta_boundary_values, mse_values) ==
    LET hits == {i \in 1..Min(Len(delta_boundary_values), Len(mse_values)) :
                    Collapsed(delta_boundary_values[i], mse_values[i])}
    IN IF hits = {} THEN <<>>
       ELSE <<grid_values[CHOOSE i \in hits : \A j \in hits : i <= j]>>

\* detect_stability_regions, lines 264-314
detect_stability_regions(grid_values, delta_boundary_values, mse_values) ==
    LET collapse_threshold ==
            CollapseThreshold(grid_values, delta_boundary_values, mse_values)
        n == Len(delta_boundary_values)
    IN IF n = 0
       THEN \* line 309: np.min of an empty array
            [status |-> "ValueError"]
       ELSE [status |-> "ok",
             stable_region |->
                IF collapse_threshold = <<>> THEN grid_values
                ELSE SelectSeq(grid_values, LAMBDA g : 2 * g < collapse_threshold[1]),
             ridge_region |->
                IF collapse_threshold = <<>> THEN <<>>
                ELSE SelectSeq(grid_values, LAMBDA g : /\ 2 * g >= collapse_threshold[1]
                                                       /\ g < collapse_threshold[1]),
             instability_region |->
                IF collapse_threshold = <<>> THEN <<>>
                ELSE SelectSeq(grid_values, LAMBDA g : g >= collapse_threshold[1]),
             collapse_threshold |-> collapse_threshold,
             variance |->
                IF n > 1
                THEN RatNorm(n * SumSeq([i \in 1..n |-> delta_boundary_values[i]
                                                          * delta_boundary_values[i]])
                                - SumSeq(delta_boundary_values) * SumSeq(delta_boundary_values),
                             n * n)
                ELSE Rat(0, 1),
             delta_boundary_range |->
                [min |-> CHOOSE d \in Range(delta_boundary_values) :
                            \A e \in Range(delta_boundary_values) : d <= e,
                 max |-> CHOOSE d \in Range(delta_boundary_values) :
                            \A e \in Range(delta_boundary_values) : d >= e,
                 mean |-> RatNorm(SumSeq(delta_boundary_values), n)]]

\* a caller's three arrays, one entry per sweep point, in any order
InitRegions ==
    /\ pc = "regions"
    /\ \E n \in 0..MaxSteps :
         \E grid_values \in [1..n -> GridValues],
            delta_boundary_values \in [1..n -> DeltaValues],
            mse_values \in [1..n -> MSEValues] :
            args = [grid_values |-> grid_values,
                    delta_boundary_values |-> delta_boundary_values,
                    mse_values |-> mse_values]
    /\ result = <<>>
    /\ pipeline = NoPipeline
    /\ CoreIdle

DetectStabilityRegions ==
    /\ pc = "regions"
    /\ result' = detect_stability_regions(args.grid_values, args.delta_boundary_values,
                                          args.mse_values)
    /\ pc' = "classified"
    /\ UNCHANGED <<args, pipeline, cvars, gtvars, anvars>>

NextRegions == DetectStabilityRegions

SpecRegions == InitRegions /\ [][NextRegions]_vars

----------------------------------------------------------------------------
(* The orchestration of msmarco_run_pipeline: main runs four scripts and   *)
(* then writes the report.  Each step of main is one action; the outcome   *)
(* of a script, and the result files it leaves, are chosen freely.         *)

\* the stages of main, in the order of its steps, and the name each has in
\* a failure report
StageOrder == <<"prepare", "embed", "compress", "evaluate", "report">>
FailureStage ==
    <<"Data Preparation", "Embedding Generation", "Compression", "Retrieval Evaluation",
      "Report Generation">>

\* run_script, lines 22-49: the script exits with 0, exits with another code,
\* times out, or cannot be started
ScriptOutcomes == {"ok", "nonzero", "timeout", "error"}

\* the result files main loads (lines 459-466) and the stage that writes each
ResultFiles == {"baseline/metrics.json", "boundary/metrics.json", "run_config.json"}
Outputs(stage) ==
    IF stage = "compress" THEN {"run_config.json"}
    ELSE IF stage = "evaluate" THEN {"baseline/metrics.json", "boundary/metrics.json"}
    ELSE {}

\* the reports MSMARCO_REAL_DATA_VERDICT.md can hold
NoReport ==
    [kind |-> "none", stage |-> "none", reason |-> "none", metrics |-> FALSE,
     written |-> "never"]
\* generate_failure_report, lines 52-174
FailureReport(failure_stage, error_message) ==
    [kind |-> "failure", stage |-> failure_stage, reason |-> error_message,
     metrics |-> FALSE, written |-> "this run"]
\* generate_success_report, lines 177-333
SuccessReport ==
    [kind |-> "success", stage |-> "none", reason |-> "none", metrics |-> TRUE,
     written |-> "this run"]

\* a step of main that goes on to the next step whatever the script returned
RunStepWithoutReturn(p, i, outcome, wrote) ==
    [p EXCEPT !.started = Append(@, StageOrder[i]),
              !.succeeded = IF outcome = "ok" THEN @ \cup {StageOrder[i]} ELSE @,
              !.files = @ \cup wrote,
              !.report = IF outcome = "ok" THEN @ ELSE FailureReport(FailureStage[i], outcome),
              !.next = i + 1]

\* main, lines 356-451: one of the steps 1-4, run_script on the script of
\* stage i and, when it fails, the failure report and return 1
RunStep(p, i, outcome, wrote) ==
    IF outcome = "ok"
    THEN [p EXCEPT !.started = Append(@, StageOrder[i]),
                   !.succeeded = @ \cup {StageOrder[i]},
                   !.files = @ \cup wrote,
                   !.next = i + 1]
    ELSE [p EXCEPT !.started = Append(@, StageOrder[i]),
                   !.files = @ \cup wrote,
                   !.report = FailureReport(FailureStage[i], outcome),
                   !.exit_code = 1]

\* main, lines 453-494: step 5, loading the result files and writing the
\* success report; loaded is false when a file cannot be parsed or lacks a key
GenerateFinalReport(p, loaded) ==
    IF ResultFiles \subseteq p.files /\ loaded
    THEN [p EXCEPT !.started = Append(@, "report"),
                   !.succeeded = @ \cup {"report"},
                   !.report = SuccessReport,
                   !.next = 6,
                   !.exit_code = 0]
    ELSE [p EXCEPT !.started = Append(@, "report"),
                   !.report = FailureReport(FailureStage[5], "could not load results"),
                   !.exit_code = 1]

\* the start of main: the result files and the report a previous run left
InitPipeline ==
    /\ pc = "pipeline"
    /\ \E files \in SUBSET ResultFiles,
          report \in {NoReport,
                      [SuccessReport EXCEPT !.written = "previous run"],
                      [FailureReport("Compression", "nonzero") EXCEPT !.written = "previous run"]} :
         pipeline = [next |-> 1, started |-> <<>>, succeeded |-> {}, files |-> files,
                     report |-> report, exit_code |-> Absent]
    /\ args = <<>>
    /\ result = <<>>
    /\ CoreIdle

Running == pc = "pipeline" /\ pipeline.exit_code = Absent

\* the outcomes of the script of stage i, with the result files it wrote
Runs(i) ==
    {[outcome |-> outcome, wrote |-> wrote] :
        outcome \in ScriptOutcomes, wrote \in SUBSET Outputs(StageOrder[i])}

\* main, lines 356-378
PrepareSubset ==
    /\ Running
    /\ pipeline.next = 1
    /\ \E r \in Runs(1) : pipeline' = RunStep(pipeline, 1, r.outcome, r.wrote)
    /\ UNCHANGED <<pc, args, result, cvars, gtvars, anvars>>

\* main, lines 380-402
GenerateEmbeddings ==
    /\ Running
    /\ pipeline.next = 2
    /\ \E r \in Runs(2) : pipeline' = RunStep(pipeline, 2, r.outcome, r.wrote)
    /\ UNCHANGED <<pc, args, result, cvars, gtvars, anvars>>

\* main, lines 404-426
RunCompression ==
    /\ Running
    /\ pipeline.next = 3
    /\ \E r \in Runs(3) : pipeline' = RunStep(pipeline, 3, r.outcome, r.wrote)
    /\ UNCHANGED <<pc, args, result, cvars, gtvars, anvars>>

\* main, lines 428-450
EvaluateRetrieval ==
    /\ Running
    /\ pipeline.next = 4
    /\ \E r \in Runs(4) : pipeline' = RunStep(pipeline, 4, r.outcome, r.wrote)
    /\ UNCHANGED <<pc, args, result, cvars, gtvars, anvars>>

\* main, lines 452-494
FinalReport ==
    /\ Running
    /\ pipeline.next = 5
    /\ \E loaded \in BOOLEAN : pipeline' = GenerateFinalReport(pipeline, loaded)
    /\ UNCHANGED <<pc, args, result, cvars, gtvars, anvars>>

NextPipeline ==
    \/ PrepareSubset
    \/ GenerateEmbeddings
    \/ RunCompression
    \/ EvaluateRetrieval
    \/ FinalReport

SpecPipeline == InitPipeline /\ [][NextPipeline]_vars

----------------------------------------------------------------------------
(* The boundary sweep of run_boundary_eval: main runs                      *)
(* run_boundary_experiment_node on a dataset, which emits one point per    *)
(* (grid, k) of the configured ranges.  A grid value is in 1/60, so that   *)
(* np.linspace is exact for up to five steps; a draw of the random         *)
(* generator is in 1/10.                                                   *)

\* the configured ranges: gridRange 0.1 .. 0.3, kRange 3 .. 5 or 3 .. 15
GridMin == 6
GridMax == 18
KMin == 3
KMaxima == {5, 15}

\* the --seed of the run, and the states the operating system can seed the
\* generator of a new process with
Seeds == {1, 2}
Entropy == {0, 1, 2}

\* np.linspace(min, max, steps), lines 278 and 279 (dtype=int truncates)
linspace(min, max, steps) ==
    [i \in 1..steps |->
        IF steps = 1 THEN min ELSE min + ((i - 1) * (max - min)) \div (steps - 1)]

\* np.random.rand(): a fixed function of the state the generator was seeded
\* with and of the number of draws made since
Draw(seed, drawn) == (3 * seed + 7 * drawn + seed * drawn) % 10

\* lines 290-304: the metrics of the sweep point, rand being the draw
\* (mse_global in 1/6000, lsi in 1/120, the products in the unit they imply)
PointMetrics(grid, rand) ==
    LET mse_global == 5 * grid + 6 * rand
    IN [lsi |-> 120 - grid,
        mse_global |-> mse_global,
        mse_boundary |-> mse_global * (300 + grid),
        mse_bulk |-> mse_global * (600 - grid),
        delta_boundary |-> mse_global * grid * 3]

\* run_boundary_experiment_node, lines 246-333: the points of the sweep, the
\* generator being in the state seeded
run_boundary_experiment_node(config, seeded) ==
    LET grid_values == linspace(config.gridRange.min, config.gridRange.max,
                                config.gridRange.steps)
        k_values == linspace(config.kRange.min, config.kRange.max, config.kRange.steps)
        nk == Len(k_values)
    IN [points |->
          [n \in 1..(Len(grid_values) * nk) |->
              LET grid == grid_values[((n - 1) \div nk) + 1]
                  k == k_values[((n - 1) % nk) + 1]
              IN [grid |-> grid, k |-> k,
                  metrics |-> PointMetrics(grid, Draw(seeded, n - 1))]]]

\* main, lines 602-669, for one dataset and one run: load_dataset seeds the
\* generator for a synthetic dataset (line 55) and leaves it as the process
\* started it for a text dataset (lines 170-177)
RunOnce(dataset, seed, config, entropy) ==
    run_boundary_experiment_node(config, IF dataset = "synthetic" THEN seed ELSE entropy)

SweepConfigs ==
    {[gridRange |-> [min |-> GridMin, max |-> GridMax, steps |-> gs],
      kRange |-> [min |-> KMin, max |-> kmax, steps |-> ks]] :
        gs \in 1..MaxSteps, ks \in 1..MaxSteps, kmax \in KMaxima}

\* two executions of the script on one dataset with one --seed, each with
\* its experiment_defaults
InitSweep ==
    /\ pc = "sweep"
    /\ \E dataset \in {"synthetic", "text"}, seed \in Seeds,
          first \in SweepConfigs, second \in SweepConfigs :
         args = [dataset |-> dataset, seed |-> seed, configs |-> <<first, second>>]
    /\ result = <<>>
    /\ pipeline = NoPipeline
    /\ CoreIdle

\* one execution of main
RunBoundaryEval ==
    /\ pc = "sweep"
    /\ \E entropy \in Entropy :
         result' = Append(result, RunOnce(args.dataset, args.seed,
                                          args.configs[Len(result) + 1], entropy))
    /\ pc' = IF Len(result) = 1 THEN "swept" ELSE "sweep"
    /\ UNCHANGED <<args, pipeline, cvars, gtvars, anvars>>

NextSweep == RunBoundaryEval

SpecSweep == InitSweep /\ [][NextSweep]_vars

----------------------------------------------------------------------------
(* load_qrels of msmarco_eval_retrieval: the relevance judgments of        *)
(* qrels.tsv, a header line followed by lines of tab-separated fields.     *)

QueryIds == {"q0", "q1"}
QrelsPassages == {"p1", "p2"}
RelevanceFields == {"-1", "0", "1", "2"}

\* int(parts[2]), line 49, on the fields above
int(field) ==
    CASE field = "-1" -> 0 - 1
      [] field = "0" -> 0
      [] field = "1" -> 1
      [] field = "2" -> 2

\* line.strip().split('\t'), line 47, of the lines a qrels file holds: a
\* judgment, a judgment with a further column, a line cut short and a blank
\* line
QrelsLines ==
    {<<q, p, r>> : q \in QueryIds, p \in QrelsPassages, r \in RelevanceFields}
        \cup {<<"q0", "p1", "2", "x">>, <<"q1", "p2">>, <<"">>}

QrelsHeader == <<"query_id", "passage_id", "relevance">>

\* the body of the loop with >= in place of > at line 50
AddJudgmentAnyRelevance(qrels, parts) ==
    IF Len(parts) >= 3 /\ int(parts[3]) >= 0
    THEN IF parts[1] \in DOMAIN qrels
         THEN [qrels EXCEPT ![parts[1]] = @ \cup {parts[2]}]
         ELSE [q \in DOMAIN qrels \cup {parts[1]} |->
                  IF q = parts[1] THEN {parts[2]} ELSE qrels[q]]
    ELSE qrels

\* lines 47-53: the body of the loop, for one line
AddJudgment(qrels, parts) ==
    IF Len(parts) >= 3
    THEN LET query_id == parts[1]
             passage_id == parts[2]
             relevance == int(parts[3])
         IN IF relevance > 0
            THEN IF query_id \in DOMAIN qrels
                 THEN [qrels EXCEPT ![query_id] = @ \cup {passage_id}]
                 ELSE [q \in DOMAIN qrels \cup {query_id} |->
                          IF q = query_id THEN {passage_id} ELSE qrels[q]]
            ELSE qrels
    ELSE qrels

RECURSIVE AddJudgments(_, _, _)
AddJudgments(qrels, lines, i) ==
    IF i > Len(lines) THEN qrels
    ELSE AddJudgments(AddJudgment(qrels, lines[i]), lines, i + 1)

\* load_qrels, lines 33-56: next(f) skips the header, the loop reads the rest
load_qrels(file) == AddJudgments(<<>>, file, 2)

InitQrels ==
    /\ pc = "qrels"
    /\ \E n \in 0..MaxRows : \E lines \in [1..n -> QrelsLines] :
         args = <<QrelsHeader>> \o lines
    /\ result = <<>>
    /\ pipeline = NoPipeline
    /\ CoreIdle

LoadQrels ==
    /\ pc = "qrels"
    /\ result' = [qrels |-> load_qrels(args)]
    /\ pc' = "loaded"
    /\ UNCHANGED <<args, pipeline, cvars, gtvars, anvars>>

NextQrels == LoadQrels

SpecQrels == InitQrels /\ [][NextQrels]_vars

----------------------------------------------------------------------------
(* snap_to_grid of msmarco_run_compression, applied to a vector and then   *)
(* to its own result.                                                      *)

SnapCoords == {-7, -6, -3, -2, 0, 1, 2, 5, 6}
SnapSteps == {-4, 0, 1, 3, 4}

InitSnap ==
    /\ pc = "snap"
    /\ \E n \in 0..MaxVectors : \E v \in [1..n -> SnapCoords] : \E step \in SnapSteps :
         args = [vectors |-> v, step |-> step]
    /\ result = <<>>
    /\ pipeline = NoPipeline
    /\ CoreIdle

\* snap_to_grid(vectors, step), then snap_to_grid of what it returned
SnapToGrid ==
    /\ pc = "snap"
    /\ result' = Append(result, snap_to_grid(IF result = <<>> THEN args.vectors
                                             ELSE result[Len(result)], args.step))
    /\ pc' = IF Len(result) = 1 THEN "snapped" ELSE "snap"
    /\ UNCHANGED <<args, pipeline, cvars, gtvars, anvars>>

NextSnap == SnapToGrid

SpecSnap == InitSnap /\ [][NextSnap]_vars

----------------------------------------------------------------------------
(* extract_metrics_by_grid of compare_boundary_aware: the metrics of a     *)
(* result's points, averaged per grid value.                               *)

MaxSweepPoints == 2

\* Python's None, as a metric's value or as a point's grid
None == -999998

\* the metrics of line 58 and the key of line 63, with the names they are
\* averaged under
LoopMetrics == {"mse_global", "mse_boundary", "mse_bulk", "delta_boundary", "lsi"}
AveragedMetrics == LoopMetrics \cup {"knn_overlap"}
SourceKey(metric) == IF metric = "knn_overlap" THEN "neighborhoodOverlap" ELSE metric

\* lines 59 and 63: whether the point's value is appended to the metric's list
Accumulated(metrics, metric) ==
    IF metric \in LoopMetrics
    THEN metric \in DOMAIN metrics /\ metrics[metric] # None /\ metrics[metric] # NaN
    ELSE "neighborhoodOverlap" \in DOMAIN metrics /\ metrics["neighborhoodOverlap"] # None

\* lines 41-64: the list grid_metrics[grid][metric]
GridMetricValues(points, grid, metric) ==
    LET at == SelectSeq(points, LAMBDA point :
                  point.grid = grid /\ Accumulated(point.metrics, metric))
    IN [i \in 1..Len(at) |-> at[i].metrics[SourceKey(metric)]]

\* extract_metrics_by_grid, lines 33-76
extract_metrics_by_grid(res) ==
    LET points == res.points
        grids == {points[i].grid : i \in 1..Len(points)} \ {None}
    IN [grid \in grids |->
          [metric \in AveragedMetrics |->
              Let(GridMetricValues(points, grid, metric), LAMBDA values :
                  IF values # <<>> THEN Mean(values) ELSE RatNaN)]]

\* a point's metrics: a key may be missing, and its value may be None or NaN
MetricValues == {Absent, None, NaN, 2, 4}
MetricsOf(metric, value, overlap) ==
    LET given == [k \in {metric, "neighborhoodOverlap"} |->
                     IF k = metric THEN value ELSE overlap]
    IN [k \in {x \in DOMAIN given : given[x] # Absent} |-> given[k]]

SweepPoints(metric) ==
    {[grid |-> grid, metrics |-> MetricsOf(metric, value, overlap)] :
        grid \in {None, 1, 2}, value \in MetricValues, overlap \in MetricValues}

InitExtract ==
    /\ pc = "extract"
    /\ \E metric \in {"mse_global", "lsi"} : \E n \in 0..MaxSweepPoints :
         \E points \in [1..n -> SweepPoints(metric)] :
            args = [points |-> points]
    /\ result = <<>>
    /\ pipeline = NoPipeline
    /\ CoreIdle

ExtractMetricsByGrid ==
    /\ pc = "extract"
    /\ result' = extract_metrics_by_grid(args)
    /\ pc' = "extracted"
    /\ UNCHANGED <<args, pipeline, cvars, gtvars, anvars>>

NextExtract == ExtractMetricsByGrid

SpecExtract == InitExtract /\ [][NextExtract]_vars

----------------------------------------------------------------------------
(* Properties of the compression run (SpecCompress) *)

IsCompressionCall == pc = "done" /\ ret.op \in {"baseline", "boundary-aware", "simple", "simple-boundary"}
IsMsMarcoCall == pc = "done" /\ ret.op \in {"baseline", "boundary-aware"}

\* the deduplicated centroid set quantized at step
CentroidSet(ideal, step) == Range(extract_unique_vectors(snap_to_grid(ideal, step)))

\* C1: for a non-empty vector set and positive step and k, every compressed
\* vector a compression call returns is an element of the deduplicated
\* quantized centroid set of its mode: at step for baseline and bulk vectors,
\* at step / 2 for boundary vectors; also when there are at most k vectors.
C1_CompressedInCentroidSet ==
    (IsCompressionCall /\ ret.status = "ok" /\ Len(vectors) > 0 /\ ret.grid > 0 /\ ret.k > 0)
    => \A i \in 1..Len(vectors) :
          ret.compressed[i] \in
              CentroidSet(ret.ideal, IF ret.mask[i] THEN ret.grid \div 2 ELSE ret.grid)

\* C2: for a vector set of length at most k the cluster operation does no
\* clustering and returns the input vectors unchanged, in the same order, as
\* the centroid set (run_kmeans and simple_kmeans_compression alike).
C2_IdentityFallback ==
    /\ (pc = "clustered" /\ Len(vectors) <= ret.k)
          => (centroids = vectors /\ ret.compressed = vectors)
    /\ (IsCompressionCall /\ ret.status = "ok" /\ Len(vectors) <= ret.k)
          => ret.ideal = vectors
    /\ (IsCompressionCall /\ ret.op \in {"simple", "simple-boundary"} /\ Len(vectors) <= ret.k)
          => (ret.status = "ok" /\ ret.bulk = vectors /\ ret.compressed = vectors)

C2_Witness ==
    /\ pc = "clustered" /\ Len(vectors) = 2 /\ ret.k = 2
    /\ vectors[1] > vectors[2] /\ centroids = vectors

Marked(call) == {i \in 1..Len(call.mask) : call.mask[i]}

\* the vectors whose ambiguity is the smallest of the set
MinAmbiguity ==
    {i \in 1..Len(vectors) :
        \A j \in 1..Len(vectors) : Ambiguity(vectors[i], centroids) <= Ambiguity(vectors[j], centroids)}

\* C3 as stated: with two or more centroids, percentile 0 marks no vector,
\* percentile 100 marks every vector, and the marked set grows with the
\* percentile.
C3_AsStated ==
    (pc = "clustered" /\ Len(centroids) >= 2)
    => /\ \A c \in 1..Len(calls) :
            /\ calls[c].percentile = 0 => Marked(calls[c]) = {}
            /\ calls[c].percentile = 100 => Marked(calls[c]) = 1..Len(vectors)
       /\ \A c, d \in 1..Len(calls) :
            calls[c].percentile <= calls[d].percentile => Marked(calls[c]) \subseteq Marked(calls[d])

\* C3 (amended): for a non-empty vector set and two or more centroids,
\* percentile 0 marks exactly the vectors of minimum ambiguity (so at least
\* one), percentile 100 marks every vector, and the marked set grows with the
\* percentile.
C3_PercentileExtremesAndMonotone ==
    (pc = "clustered" /\ Len(centroids) >= 2 /\ Len(vectors) > 0)
    => /\ \A c \in 1..Len(calls) :
            /\ calls[c].percentile = 0
                  => (Marked(calls[c]) = MinAmbiguity /\ Marked(calls[c]) # {})
            /\ calls[c].percentile = 100 => Marked(calls[c]) = 1..Len(vectors)
       /\ \A c, d \in 1..Len(calls) :
            calls[c].percentile <= calls[d].percentile => Marked(calls[c]) \subseteq Marked(calls[d])

C3_Witness ==
    /\ pc = "clustered" /\ Len(centroids) >= 2 /\ Len(calls) = 2
    /\ calls[1].percentile = 0 /\ calls[2].percentile = 100
    /\ Marked(calls[1]) # {} /\ Marked(calls[1]) # Marked(calls[2])
    /\ Marked(calls[2]) = 1..Len(vectors)

\* C4: with fewer than 2 centroids no vector is classified as boundary, in the
\* standalone classifier and in the boundary-aware branch of
\* simple_kmeans_compression, and every vector is compressed on the step lattice.
C4_NoBoundaryBelowTwoCentroids ==
    /\ (pc = "clustered" /\ Len(centroids) < 2)
          => \A c \in 1..Len(calls) : Marked(calls[c]) = {}
    /\ (pc = "done" /\ ret.op \in {"boundary-aware", "simple-boundary"} /\ ret.status = "ok"
          /\ ret.grid > 0 /\ ret.k > 0 /\ Len(vectors) > ret.k /\ Len(ret.ideal) < 2)
          => /\ \A i \in 1..Len(vectors) : ~ret.mask[i]
             /\ \A i \in 1..Len(vectors) : ret.compressed[i] \in CentroidSet(ret.ideal, ret.grid)

\* C5: a baseline or boundary-aware compression call (here on a non-empty
\* vector set) with a non-positive step or a non-positive k fails with
\* InvalidParameter and returns no result.
C5_InvalidParameterRaised ==
    (IsMsMarcoCall /\ Len(vectors) > 0 /\ (ret.grid <= 0 \/ ret.k <= 0))
    => (ret.status = "InvalidParameter" /\ ret.compressed = <<>>)

\* C6: for an empty vector set and positive step and k, compress_baseline and
\* compress_boundary_aware return an empty result and raise no error.
C6_EmptyInputEmptyResult ==
    (IsMsMarcoCall /\ Len(vectors) = 0 /\ ret.grid > 0 /\ ret.k > 0)
    => (ret.status = "ok" /\ ret.compressed = <<>>)

----------------------------------------------------------------------------
(* Properties of the self-referential evaluation (SpecEval) *)

\* C7: in every self-referential metric call, no query vector is in the
\* neighbour list taken for it in original space nor in the one taken for it in
\* compressed space, also when several compressed vectors coincide.
C7_QueryNotItsOwnNeighbor ==
    pc = "returned" => (~ev.orig_self /\ ~ev.comp_self)

\* C8: on fewer than k + 1 vectors each self-referential metric (recall, MRR,
\* NDCG) returns exactly 1.0, never NaN.
C8_DegenerateInputPerfectScore ==
    (pc = "returned" /\ Len(vectors) < ev.k + 1) => ev.result = Rat(1, 1)

\* the distances between the vectors are pairwise distinct: no vector is as
\* far from one vector as from another
DistinctDistances(vs) ==
    \A i \in 1..Len(vs) : \A j \in 1..Len(vs), l \in 1..Len(vs) :
        j # l => DistsFrom(vs, i)[j] # DistsFrom(vs, i)[l]

\* C30: when the compressed vectors are the original ones, at least k + 1 in
\* number and at pairwise distinct distances, the self-referential
\* compute_mrr returns 1.0.
C30_IdentityCompressionPerfectMRR ==
    (/\ pc = "returned"
     /\ ev.metric = "mrr"
     /\ ret.compressed = vectors
     /\ Len(vectors) >= ev.k + 1
     /\ DistinctDistances(vectors)) => ev.result = Rat(1, 1)

----------------------------------------------------------------------------
(* Properties of the ground-truth metrics (SpecGT) *)

\* the end-to-end scenario: relevant ids {p1, p2}, ranking [p3, p1, p2]
Scenario == retrieved = <<"p3", "p1", "p2">> /\ relevant = {"p1", "p2"}

\* the ids among the first k of the ranking
TopK(k) == {retrieved[i] : i \in {j \in 1..Len(retrieved) : j <= k}}

\* the 1-indexed ranks of the relevant ids of the ranking
RelevantRanks == {i \in 1..Len(retrieved) : retrieved[i] \in relevant}

\* C9: Recall@k is |top-k /\ relevant| / |relevant|, 0 when no id is relevant;
\* MRR is 1 / (the 1-indexed rank of the first relevant id), 0 when no
\* retrieved id is relevant; on the scenario Recall@10 = 1.0 and MRR = 0.5.
C9_GroundTruthRecallAndMRR ==
    /\ (pc = "scored" /\ score.metric = "recall") =>
          /\ relevant = {} => score.value = Rat(0, 1)
          /\ relevant # {} =>
                /\ score.value.den > 0
                /\ score.value.num * Cardinality(relevant)
                      = score.value.den * Cardinality(TopK(score.k) \cap relevant)
          /\ (Scenario /\ score.k = 10) => score.value = Rat(1, 1)
    /\ (pc = "scored" /\ score.metric = "mrr") =>
          /\ RelevantRanks = {} => score.value = Rat(0, 1)
          /\ \A i \in RelevantRanks :
                (\A j \in RelevantRanks : i <= j) => score.value = Rat(1, i)
          /\ Scenario => score.value = Rat(1, 2)

C9_Witness ==
    /\ pc = "scored" /\ Scenario
    /\ score.metric = "recall" /\ score.k = 10 /\ score.value = Rat(1, 1)

\* value is within 1/10000 of tenthousandths / 10000
Approx(value, tenthousandths) ==
    /\ value.den > 0
    /\ Abs(value.num * 10000 - tenthousandths * value.den) <= value.den

\* C10 as stated: on the scenario NDCG@10 is approximately 0.9197.
C10_AsStated ==
    (pc = "scored" /\ score.metric = "ndcg" /\ score.k = 10 /\ Scenario)
    => Approx(score.value, 9197)

\* C10 (amended): NDCG@k is the sum of 1 / log2(i + 2) over the zero-indexed
\* ranks i < k of the relevant ids, divided by the same sum over the first
\* min(|relevant|, k) ranks, and 0 when that ideal sum is 0; on the scenario
\* NDCG@10 is approximately 0.6934 (1.1309 / 1.6309).
C10_ScenarioNDCG ==
    (pc = "scored" /\ score.metric = "ndcg") =>
       LET gains == [i \in 1..Len(retrieved) |->
                       IF i <= score.k /\ retrieved[i] \in relevant THEN Log2Discount[i] ELSE 0]
           ideal == [i \in 1..Min(Cardinality(relevant), score.k) |-> Log2Discount[i]]
       IN /\ relevant = {} => score.value = Rat(0, 1)
          /\ relevant # {} => score.value = Rat(SumSeq(gains), SumSeq(ideal))
          /\ (Scenario /\ score.k = 10) => Approx(score.value, 6934)

C10_Witness ==
    /\ pc = "scored" /\ Scenario
    /\ score.metric = "ndcg" /\ score.k = 10 /\ score.value = Rat(11309, 16309)

\* 0 <= r <= 1
InUnit(r) == r.den > 0 /\ 0 <= r.num /\ r.num <= r.den

\* a <= b, for fractions of positive denominators
RatLeq(a, b) == a.num * b.den <= b.num * a.den

\* C11: on a ranking of pairwise-distinct ids, for every relevant set and
\* every cutoff k >= 1, Recall@k, MRR and NDCG@k lie in [0, 1]; so do the
\* averages evaluate_retrieval reports.
C11_MetricsInUnitInterval ==
    /\ (pc = "scored" /\ Distinct(retrieved)) => InUnit(score.value)
    /\ pc = "reported" =>
          /\ InUnit(run.metrics.recall_10)
          /\ InUnit(run.metrics.recall_100)
          /\ InUnit(run.metrics.mrr)
          /\ InUnit(run.metrics.ndcg_10)

C11_Witness ==
    /\ pc = "reported" /\ run.queries_with_qrels = 2
    /\ run.metrics.recall_10 = Rat(1, 1) /\ run.metrics.mrr = Rat(3, 4)
    /\ run.metrics.ndcg_10.num < run.metrics.ndcg_10.den

\* C12: for a fixed ranking and relevant set, Recall@k does not decrease as k
\* grows.
C12_RecallMonotoneInK ==
    (pc = "scored" /\ score.metric = "recall") =>
       \A k \in Cutoffs :
          /\ score.k <= k =>
                RatLeq(score.value, msmarco_compute_recall_at_k(retrieved, relevant, k))
          /\ k <= score.k =>
                RatLeq(msmarco_compute_recall_at_k(retrieved, relevant, k), score.value)

C12_Witness ==
    /\ pc = "scored" /\ score.metric = "recall" /\ score.k = 1 /\ score.value = Rat(0, 1)
    /\ msmarco_compute_recall_at_k(retrieved, relevant, 2) = Rat(1, 2)
    /\ msmarco_compute_recall_at_k(retrieved, relevant, 10) = Rat(1, 1)

----------------------------------------------------------------------------
(* Properties of the verdict engine (SpecVerdict) *)

Verdicts == {"EXPLOITABLE", "OBSERVATIONAL", "REJECTED", "INSUFFICIENT_DATA"}

BothMethods == Methods \subseteq DOMAIN stats

\* metric has a mean for both methods
InBoth(metric) ==
    /\ BothMethods
    /\ metric \in DOMAIN stats["lattice-hybrid"]
    /\ metric \in DOMAIN stats["boundary-aware"]

BaselineMean(metric) == stats["lattice-hybrid"][metric].mean
BoundaryMean(metric) == stats["boundary-aware"][metric].mean

\* some compared metric has a mean for both methods
Comparable == \E m \in Range(ComparedMetrics) : InBoth(m)

\* the Recall@10 of boundary-aware relative to a non-zero baseline, against
\* the thresholds 0% and 2%
RecallDefined == InBoth("recall_at_10") /\ BaselineMean("recall_at_10") > 0
RecallGain == 100 * (BoundaryMean("recall_at_10") - BaselineMean("recall_at_10"))
RecallAboveThreshold ==
    RecallDefined /\ RecallGain > SignificantPct * BaselineMean("recall_at_10")
RecallWithinThreshold ==
    /\ RecallDefined
    /\ RecallGain > 0
    /\ RecallGain <= SignificantPct * BaselineMean("recall_at_10")

\* the time overhead of boundary-aware, (boundary - baseline) / baseline,
\* against the threshold 100%
OverheadDefined ==
    InBoth("compression_time_seconds") /\ BaselineMean("compression_time_seconds") > 0
OverheadGain ==
    100 * (BoundaryMean("compression_time_seconds") - BaselineMean("compression_time_seconds"))
OverheadBelowLimit ==
    OverheadDefined /\ OverheadGain < OverheadLimitPct * BaselineMean("compression_time_seconds")
OverheadAtLimit ==
    OverheadDefined /\ OverheadGain >= OverheadLimitPct * BaselineMean("compression_time_seconds")

\* C13: whenever the Recall@10 improvement is above 2% and the time overhead
\* is below 100%, compare_methods followed by determine_verdict yields
\* EXPLOITABLE (so for Recall@10 0.50 -> 0.52 with a 10% overhead).
C13_ExploitableAboveThreshold ==
    (pc = "judged" /\ RecallAboveThreshold /\ OverheadBelowLimit) => verdict = "EXPLOITABLE"

\* C14: whenever comparable metrics exist and the Recall@10 improvement is
\* above 0% and at most 2% (exactly 2% included), the verdict is
\* OBSERVATIONAL.
C14_ObservationalUpToThreshold ==
    (pc = "judged" /\ Comparable /\ RecallWithinThreshold) => verdict = "OBSERVATIONAL"

\* C15: when a method is absent from the stats, or no compared metric has a
\* mean for both methods, the comparison is empty and the verdict is
\* INSUFFICIENT_DATA, whatever the improvements of the metrics present.
C15_InsufficientDataFirst ==
    /\ (pc \in {"compared", "judged"} /\ ~Comparable) => DOMAIN comparison = {}
    /\ (pc = "judged" /\ ~Comparable) => verdict = "INSUFFICIENT_DATA"
    /\ (pc = "judged" /\ Comparable) => verdict # "INSUFFICIENT_DATA"

C15_Witness ==
    /\ pc = "judged"
    /\ BothMethods
    /\ ~Comparable
    /\ "recall_at_10" \in DOMAIN stats["boundary-aware"]
    /\ "compression_time_seconds" \in DOMAIN stats["lattice-hybrid"]
    /\ verdict = "INSUFFICIENT_DATA"

\* the EXPLOITABLE rule and the OBSERVATIONAL rule, as stated
ExploitableRule == RecallAboveThreshold /\ ~OverheadAtLimit
ObservationalRule == RecallWithinThreshold

\* C16: the verdict is one of the four, and it is REJECTED exactly when
\* comparable metrics exist and neither the EXPLOITABLE rule nor the
\* OBSERVATIONAL rule applies.
C16_RejectedIsTheRemainder ==
    pc = "judged" =>
        /\ verdict \in Verdicts
        /\ verdict = "REJECTED" <=> (Comparable /\ ~ExploitableRule /\ ~ObservationalRule)

\* C17: for every compared metric with a mean for both methods and a
\* non-zero baseline, improvement is (boundary - baseline) / baseline when
\* higher is better and (baseline - boundary) / baseline when lower is
\* better, and the metric is significant exactly when |improvement| > 2%.
C17_ImprovementAndSignificance ==
    pc \in {"compared", "judged"} =>
        \A i \in 1..Len(ComparedMetrics) :
            LET m == ComparedMetrics[i] IN
            InBoth(m) =>
                /\ m \in DOMAIN comparison
                /\ LET c == comparison[m]
                       gain == IF i <= 4 THEN BoundaryMean(m) - BaselineMean(m)
                                         ELSE BaselineMean(m) - BoundaryMean(m)
                   IN /\ c.improvement_pct.den > 0
                      /\ BaselineMean(m) # 0 =>
                            /\ c.improvement_pct.num * BaselineMean(m)
                                   = 100 * gain * c.improvement_pct.den
                            /\ c.significant <=>
                                   100 * Abs(gain) > SignificantPct * Abs(BaselineMean(m))
                      /\ c.significant <=>
                            Abs(c.improvement_pct.num) > SignificantPct * c.improvement_pct.den

C17_Witness ==
    /\ pc = "compared"
    /\ {"mse_global", "recall_at_10", "compression_time_seconds"} \subseteq DOMAIN comparison
    /\ comparison["mse_global"].improvement_pct = Rat(-25, 1)
    /\ comparison["mse_global"].significant
    /\ comparison["recall_at_10"].improvement_pct = Rat(2, 1)
    /\ ~comparison["recall_at_10"].significant
    /\ comparison["compression_time_seconds"].improvement_pct = Rat(-10, 1)

----------------------------------------------------------------------------
(* Properties of the count-based verdict (SpecCount) *)

\* some metric improves at pct percent of the sweep points or more
ImprovesAtShare(pct) ==
    \E m \in DOMAIN count_verdict.improvements :
        100 * count_verdict.improvements[m] >= pct * Len(rows)

SomePointImproves ==
    \E m \in DOMAIN count_verdict.improvements : count_verdict.improvements[m] > 0

\* C18: confidence is 'high' exactly when some metric improves at 70% of the
\* sweep points or more, 'moderate' when some metric improves at 50% or more
\* but none at 70%, and 'low' when some point improves but no metric reaches
\* 50%.
C18_ConfidenceByShareOfPoints ==
    pc = "counted" =>
        /\ count_verdict.confidence = "high" <=> ImprovesAtShare(HighImprovementThreshold)
        /\ (ImprovesAtShare(ModerateImprovementThreshold)
                /\ ~ImprovesAtShare(HighImprovementThreshold))
              => count_verdict.confidence = "moderate"
        /\ (SomePointImproves /\ ~ImprovesAtShare(ModerateImprovementThreshold))
              => count_verdict.confidence = "low"

\* C29: compute_verdict reports exploitable only if some metric's count of
\* improvements is above 0; when every count is 0, an empty table and a
\* table of no comparable row included, exploitable is FALSE.
C29_ExploitableNeedsAnImprovement ==
    pc = "counted" =>
        (count_verdict.exploitable =>
            \E metric \in DOMAIN count_verdict.improvements :
                count_verdict.improvements[metric] > 0)

----------------------------------------------------------------------------
(* Properties of the stability analysis (SpecStability) *)

Negative(mean) == mean.den > 0 /\ mean.num < 0
Positive(mean) == mean.den > 0 /\ mean.num > 0
Zero(mean) == mean.den > 0 /\ mean.num = 0

\* C19: a mean sequence that is strictly negative up to index i and strictly
\* positive afterwards yields exactly one zero crossing, at the pair
\* (i, i + 1); so the means [-0.1, -0.05, 0.02, 0.08] over the steps
\* [0.1, 0.2, 0.3, 0.4] yield exactly one crossing, between 0.2 and 0.3.
C19_OneCrossingNegativeThenPositive ==
    pc = "analysed" =>
        \A i \in 1..(Len(stability.mean_delta) - 1) :
            (/\ \A j \in 1..i : Negative(stability.mean_delta[j])
             /\ \A j \in (i + 1)..Len(stability.mean_delta) : Positive(stability.mean_delta[j]))
              => stability.zero_crossings = <<stability.grid_values[i]>>

C19_Witness ==
    /\ pc = "analysed"
    /\ Len(results) = 2
    /\ stability.grid_values = <<1, 2, 3, 4>>
    /\ stability.mean_delta = <<Rat(-10, 1), Rat(-5, 1), Rat(2, 1), Rat(8, 1)>>
    /\ stability.zero_crossings = <<2>>

\* the mean changes sign between a and b, a zero next to a non-zero mean
\* counting as a change
SignChange(a, b) ==
    \/ (Negative(a) /\ Positive(b))
    \/ (Positive(a) /\ Negative(b))
    \/ (Zero(a) /\ (Negative(b) \/ Positive(b)))
    \/ ((Negative(a) \/ Positive(a)) /\ Zero(b))

\* C20: a zero crossing is reported at a pair of adjacent steps exactly when
\* the mean changes sign between them, a mean of exactly zero on either side
\* next to a non-zero mean counting as a sign change; a pair of means of the
\* same strict sign reports none.
C20_CrossingIffSignChange ==
    pc = "analysed" =>
        \A i \in 1..(Len(stability.mean_delta) - 1) :
            LET a == stability.mean_delta[i]
                b == stability.mean_delta[i + 1]
            IN (a.den > 0 /\ b.den > 0) =>
                  (stability.grid_values[i] \in Range(stability.zero_crossings)
                      <=> SignChange(a, b))

\* the values of deltas that are numbers
Numbers(deltas) == SelectSeq(deltas, LAMBDA d : d # NaN)

\* C21: when a point of a lattice step carries NaN for delta_boundary, or
\* lacks it, the mean of the step is the mean of its remaining values: the
\* NaN neither counts as zero nor turns the mean into NaN.
C21_NaNExcludedFromMean ==
    pc = "analysed" =>
        \A i \in 1..Len(stability.grid_values) :
            LET deltas == DeltasAt(AllPoints(results), stability.grid_values[i])
            IN Numbers(deltas) # <<>> =>
                  stability.mean_delta[i]
                     = RatNorm(SumSeq(Numbers(deltas)), Len(Numbers(deltas)))

----------------------------------------------------------------------------
(* Properties of the stability regions (SpecRegions) *)

\* the grid values of the sweep points that meet the collapse criterion
CollapsingSteps ==
    {args.grid_values[i] : i \in {j \in 1..Len(args.grid_values) :
                                     Collapsed(args.delta_boundary_values[j], args.mse_values[j])}}

\* C22: the collapse threshold is the first step value, in ascending step
\* order, at which the MSE is above 0.5 or the delta above 1.0; every step is
\* then in exactly one region: stable below half the threshold, ridge from
\* half the threshold up to it, instability from the threshold on; with no
\* step at the criterion every step is stable and the other regions are empty.
C22_RegionsByCollapseThreshold ==
    (pc = "classified" /\ result.status = "ok") =>
        /\ CollapsingSteps = {} =>
              /\ result.collapse_threshold = <<>>
              /\ result.stable_region = args.grid_values
              /\ result.ridge_region = <<>>
              /\ result.instability_region = <<>>
        /\ CollapsingSteps # {} =>
              LET threshold == CHOOSE g \in CollapsingSteps : \A h \in CollapsingSteps : g <= h
              IN /\ result.collapse_threshold = <<threshold>>
                 /\ \A g \in Range(args.grid_values) :
                       /\ g \in Range(result.stable_region) <=> 2 * g < threshold
                       /\ g \in Range(result.ridge_region) <=>
                             (2 * g >= threshold /\ g < threshold)
                       /\ g \in Range(result.instability_region) <=> g >= threshold

----------------------------------------------------------------------------
(* Properties of the pipeline (SpecPipeline) *)

ComputationStages == {"prepare", "embed", "compress", "evaluate"}

\* the stages started so far are the first stages of the fixed order, each
\* started after every earlier one succeeded
StartedInOrder ==
    /\ Len(pipeline.started) <= Len(StageOrder)
    /\ \A i \in 1..Len(pipeline.started) :
          /\ pipeline.started[i] = StageOrder[i]
          /\ \A j \in 1..(i - 1) : StageOrder[j] \in pipeline.succeeded

----------------------------------------------------------------------------
(* Properties of the boundary sweep (SpecSweep) *)

\* C24: two executions of the sweep on the same vector set and seed give the
\* same metrics at every (step, k) sweep point they share: the metrics of a
\* point depend on the vector set, step, k and seed only, not on the points
\* evaluated before it.
C24_SweepPointReproducible ==
    pc = "swept" =>
        \A i \in 1..Len(result[1].points), j \in 1..Len(result[2].points) :
            LET p == result[1].points[i]
                q == result[2].points[j]
            IN (p.grid = q.grid /\ p.k = q.k) => p.metrics = q.metrics

SweepKeys(points) == [n \in 1..Len(points) |-> <<points[n].grid, points[n].k>>]

\* C25: a sweep emits one point per (step, k) of the grid, the step values
\* and the k values each contain the configured minimum and maximum, the
\* points ascend by step and then by k, and no two points have the same
\* (step, k).
C25_OnePointPerGridCell ==
    \A r \in 1..Len(result) :
        LET config == args.configs[r]
            keys == SweepKeys(result[r].points)
        IN /\ \A n \in 1..(Len(keys) - 1) :
                \/ keys[n][1] < keys[n + 1][1]
                \/ keys[n][1] = keys[n + 1][1] /\ keys[n][2] < keys[n + 1][2]
           /\ {config.gridRange.min, config.gridRange.max} \subseteq {key[1] : key \in Range(keys)}
           /\ {config.kRange.min, config.kRange.max} \subseteq {key[2] : key \in Range(keys)}

----------------------------------------------------------------------------
(* Properties of the relevance judgments (SpecQrels) *)

\* the (query_id, passage_id, relevance) rows of the table
JudgmentRows == {args[i] : i \in {j \in 2..Len(args) : Len(args[j]) >= 3}}

\* C26: after load_qrels the mapping holds passage p under query q exactly
\* when some row (q, p, r) has r > 0; a query with no positive judgment is
\* not a key of the mapping, and no set of the mapping is empty.
C26_QrelsHoldPositiveJudgments ==
    pc = "loaded" =>
        /\ \A q \in QueryIds, p \in QrelsPassages :
              (q \in DOMAIN result.qrels /\ p \in result.qrels[q])
                  <=> (\E row \in JudgmentRows :
                          row[1] = q /\ row[2] = p /\ int(row[3]) > 0)
        /\ DOMAIN result.qrels \subseteq QueryIds
        /\ \A q \in DOMAIN result.qrels :
              result.qrels[q] # {} /\ result.qrels[q] \subseteq QrelsPassages

\* q0 is judged only non-positively, q1 has the same positive judgment twice
C26_Witness ==
    /\ pc = "loaded"
    /\ args = <<QrelsHeader, <<"q0", "p2", "0">>, <<"q1", "p1", "1">>, <<"q1", "p1", "2">>>>
    /\ DOMAIN result.qrels = {"q1"}
    /\ result.qrels["q1"] = {"p1"}

----------------------------------------------------------------------------
(* Properties of the lattice quantizer (SpecSnap) *)

\* C27: for a lattice step s > 0, snapping a snapped vector changes nothing,
\* and every coordinate of the snapped vector is an integer multiple of s
\* that no other multiple of s is nearer to the input coordinate than.
C27_SnapIdempotentNearestMultiple ==
    (pc = "snapped" /\ args.step > 0) =>
        /\ result[2] = result[1]
        /\ Len(result[1]) = Len(args.vectors)
        /\ \A i \in 1..Len(args.vectors) :
              /\ result[1][i] % args.step = 0
              /\ 2 * Abs(result[1][i] - args.vectors[i]) <= args.step

\* 5 and -7 move to the multiples 4 and -8 of the step 4, 6 is half way
\* between 4 and 8 and moves to 8, and the second snap keeps all three
C27_Witness ==
    /\ pc = "snapped"
    /\ args = [vectors |-> <<5, -7, 6>>, step |-> 4]
    /\ result = <<<<4, -8, 8>>, <<4, -8, 8>>>>

----------------------------------------------------------------------------
(* Properties of the per-grid averages (SpecExtract) *)

\* the values of a metric at a grid value that are present, not None and
\* not NaN
UsableValues(points, grid, metric) ==
    LET key == SourceKey(metric)
        at == SelectSeq(points, LAMBDA point :
                  /\ point.grid = grid
                  /\ key \in DOMAIN point.metrics
                  /\ point.metrics[key] \notin {None, NaN})
    IN [i \in 1..Len(at) |-> at[i].metrics[key]]

\* C28: for every grid value and every averaged metric (the k-NN overlap
\* among them) extract_metrics_by_grid returns the mean of the values that
\* are present, not None and not NaN, and NaN only when there is none.
C28_MeanOverUsableValues ==
    pc = "extracted" =>
        \A grid \in DOMAIN result : \A metric \in AveragedMetrics :
            LET values == UsableValues(args.points, grid, metric)
            IN result[grid][metric] =
                  IF values = <<>> THEN RatNaN
                  ELSE RatNorm(SumSeq(values), Len(values))

====
